---- MODULE Spec2Model ----
(***************************************************************************)
(* ClinSample AI: the sample-size planning engine.                        *)
(*                                                                         *)
(* Real numbers are modelled in fixed point: the real x is the integer     *)
(* x * Scale.  Sample sizes, degrees of freedom and counts are plain       *)
(* integers.  The library primitives (normal quantile, logarithm, the      *)
(* noncentral-F power) are tables over the inputs the model draws.         *)
(***************************************************************************)
EXTENDS Integers, Sequences, FiniteSets, TLC

\* ------------------------------------------------------------------------
\* Bounds of the model
\* ------------------------------------------------------------------------
\* Largest denominator df the noncentral-F search probes in the model
\* (the source probes v = 1 .. 199999).
MaxV == 4

\* Largest sample size handed directly to adjust_for_dropout.
MaxN == 20

\* ------------------------------------------------------------------------
\* State
\* ------------------------------------------------------------------------
VARIABLES
    \* --- _n_for_multiple_regression_f2 (one call) ---
    s_alpha,     \* alpha, in thousandths
    s_power,     \* target power, in percent
    s_f2,        \* Cohen's f2, fixed point
    s_u,         \* number of predictors (numerator df)
    s_tab,       \* achieved power (percent) at each denominator df v
    s_v,         \* the loop variable v
    s_pc,        \* "start" | "loop" | "returned" | "failed" | "invalid"
    s_ret,       \* the returned N (0 while there is none)
    \* --- one call of a calculator, a utility or an inline app branch ---
    c_pc,        \* "idle" | "done"
    call,        \* the function called and its arguments
    out,         \* its outcome: the returned dict or the error raised
    \* --- a session: a sequence of calls in one process ---
    heap,        \* the list objects created so far, by object identity
    next_id,     \* the identity the next created object gets
    history,     \* the calls made so far, each with its outcome
    \* --- one page of the app ---
    page         \* the widgets and session state of the page shown

svars == <<s_alpha, s_power, s_f2, s_u, s_tab, s_v, s_pc, s_ret>>

cvars == <<c_pc, call, out>>

hvars == <<heap, next_id, history, page>>

vars == <<svars, cvars, hvars>>

NoCall == [fn |-> "none"]

NoOutcome == [status |-> "none"]

NoPage == [name |-> "none"]

\* Calls per session
MaxCalls == 3

\* A fresh process: no object created, no call made, no page shown
InitSession ==
    /\ heap = [i \in 1..MaxCalls |-> <<>>]
    /\ next_id = 1
    /\ history = <<>>
    /\ page = NoPage

\* ========================================================================
\* Fixed-point arithmetic (the source computes in floating point)
\* ========================================================================
Scale == 10 ^ 3

FMul(a, b) == (a * b) \div Scale

FDiv(a, b) == (a * Scale) \div b

FSq(a) == FMul(a, a)

RECURSIVE ISqrtIn(_, _, _)
ISqrtIn(n, lo, hi) ==
    IF lo >= hi THEN lo
    ELSE LET mid == (lo + hi + 1) \div 2 IN
         IF mid * mid <= n THEN ISqrtIn(n, mid, hi) ELSE ISqrtIn(n, lo, mid - 1)

\* math.sqrt
FSqrt(a) == ISqrtIn(a * Scale, 0, IF a > Scale THEN a ELSE Scale)

\* ceil(num / den) of two fixed-point (or two integer) numbers, den > 0
CeilQuot(num, den) == (num + den - 1) \div den

\* scipy.stats.norm.ppf at the probabilities the model draws
NormPpf(q) ==
    CASE q = 500 -> 0
      [] q = 800 -> 842
      [] q = 900 -> 1282
      [] q = 950 -> 1645
      [] q = 975 -> 1960

\* math.log at the arguments the model draws
Ln(x) ==
    CASE x = 500 -> -693
      [] x = 538 -> -619
      [] x = 700 -> -357
      [] x = 1000 -> 0
      [] x = 1500 -> 405
      [] x = 1857 -> 619
      [] x = 2000 -> 693
      [] x = 3000 -> 1099

\* ========================================================================
\* Noncentral-F search: app/study_pages/linear_regression_page.py
\* ========================================================================

\* Achieved power levels (percent) the power primitive may report.
PowerLevels == {50, 79, 80, 95}

\* `for v in range(1, 200000)`: the model's range stops after MaxV.
RangeStop == MaxV + 1

\* power_now = 1.0 - stats.ncf.cdf(fcrit, u, v, lam), with
\* fcrit = stats.f.ppf(1 - alpha, u, v) and lam = f2 * N, for the call's
\* fixed alpha, f2 and u: a function of v alone.  The table is drawn freely
\* (monotone or not) in Init.
AchievedPower(v) == s_tab[v]

\* N = u + v + 1
NOfV(u, v) == u + v + 1

\* A plausible slip: the loop variable is not advanced.
NextProbeStuck(v) == v

\* The step of `for v in range(...)`.
NextProbe(v) == v + 1

\* if power_now >= power
MeetsTargetStrict(p, target) == p > target

MeetsTarget(p, target) == p >= target

InitSearch ==
    /\ s_alpha \in {50}
    /\ s_power \in {80, 90}
    /\ s_f2 \in {0, 150}
    /\ s_u \in 0..2
    /\ s_tab \in [1..MaxV -> PowerLevels]
    /\ s_v = 0
    /\ s_pc = "start"
    /\ s_ret = 0
    /\ c_pc = "idle"
    /\ call = NoCall
    /\ out = NoOutcome
    /\ InitSession

\* The two guards at the head of the function.
SearchRejects ==
    /\ s_pc = "start"
    /\ (s_u < 1 \/ s_f2 <= 0)
    /\ s_pc' = "invalid"
    /\ UNCHANGED <<s_alpha, s_power, s_f2, s_u, s_tab, s_v, s_ret>>
    /\ UNCHANGED <<cvars, hvars>>

\* Both guards pass: the loop starts at v = 1.
SearchEnters ==
    /\ s_pc = "start"
    /\ ~(s_u < 1 \/ s_f2 <= 0)
    /\ s_pc' = "loop"
    /\ s_v' = 1
    /\ UNCHANGED <<s_alpha, s_power, s_f2, s_u, s_tab, s_ret>>
    /\ UNCHANGED <<cvars, hvars>>

\* One iteration whose probe meets the target: return int(N).
SearchReturns ==
    /\ s_pc = "loop"
    /\ s_v < RangeStop
    /\ MeetsTarget(AchievedPower(s_v), s_power)
    /\ s_ret' = NOfV(s_u, s_v)
    /\ s_pc' = "returned"
    /\ UNCHANGED <<s_alpha, s_power, s_f2, s_u, s_tab, s_v>>
    /\ UNCHANGED <<cvars, hvars>>

\* One iteration whose probe misses the target: next v.
SearchContinues ==
    /\ s_pc = "loop"
    /\ s_v < RangeStop
    /\ ~MeetsTarget(AchievedPower(s_v), s_power)
    /\ s_v' = NextProbe(s_v)
    /\ UNCHANGED <<s_alpha, s_power, s_f2, s_u, s_tab, s_pc, s_ret>>
    /\ UNCHANGED <<cvars, hvars>>

\* The range is exhausted: raise ValueError("Failed to find N ...").
SearchFails ==
    /\ s_pc = "loop"
    /\ s_v >= RangeStop
    /\ s_pc' = "failed"
    /\ UNCHANGED <<s_alpha, s_power, s_f2, s_u, s_tab, s_v, s_ret>>
    /\ UNCHANGED <<cvars, hvars>>

NextSearch ==
    \/ SearchRejects
    \/ SearchEnters
    \/ SearchReturns
    \/ SearchContinues
    \/ SearchFails

SpecSearch == InitSearch /\ [][NextSearch]_vars

\* The function runs to completion once called: a step that can be taken
\* is taken.
SpecSearchFair == SpecSearch /\ WF_vars(NextSearch)

\* ------------------------------------------------------------------------
\* Claims about the search
\* ------------------------------------------------------------------------

SearchDone == s_pc \in {"returned", "failed", "invalid"}

\* C1: whenever the search returns N, the achieved power at N meets the
\* target and the achieved power at N-1 (when its v = N-1-u-1 is >= 1) is
\* below the target; no smaller N with v >= 1 meets the target.
C1_ReturnedNIsMinimal ==
    s_pc = "returned" =>
        LET v == s_ret - s_u - 1 IN
        /\ v \in 1..MaxV
        /\ AchievedPower(v) >= s_power
        /\ (v - 1 >= 1 => AchievedPower(v - 1) < s_power)
        /\ \A w \in 1..(v - 1) : AchievedPower(w) < s_power

C1_Witness ==
    /\ s_pc = "returned"
    /\ s_ret - s_u - 1 >= 2
    /\ AchievedPower(s_ret - s_u - 1) = s_power

\* C2: the search terminates for every input with u >= 1 and f2 > 0: it
\* returns the first N whose achieved power meets the target, or fails with
\* the convergence error once every v of the range has been probed without
\* meeting it; it never runs forever and never returns an N that misses the
\* target.
C2_SearchTerminates ==
    /\ <>SearchDone
    /\ [](s_pc = "invalid" => (s_u < 1 \/ s_f2 <= 0))
    /\ [](s_pc = "returned" =>
            /\ s_v \in 1..(RangeStop - 1)
            /\ s_ret = s_u + s_v + 1
            /\ AchievedPower(s_v) >= s_power
            /\ \A w \in 1..(s_v - 1) : AchievedPower(w) < s_power)
    /\ [](s_pc = "failed" =>
            /\ s_v = RangeStop
            /\ \A w \in 1..(RangeStop - 1) : AchievedPower(w) < s_power)

C2_Witness ==
    /\ s_pc = "failed"
    /\ s_u >= 1 /\ s_f2 > 0
    /\ s_v = RangeStop

\* ========================================================================
\* utils/stat_utils.py
\* ========================================================================

\* The outcome of a call: a raised exception, with the stage of the function
\* that raised it ("validation": before any formula arithmetic, "formula":
\* during it, "dropout": in the dropout adjustment after the raw size was
\* computed and ceiled) ...
Raise(stage, message) ==
    [status |-> "error", error |-> message, stage |-> stage,
     result |-> <<>>, adjusted |-> <<>>]

\* ... or the returned dict; adjusted lists, in call order, the values
\* (fixed point) that were divided by 1 - dropout_rate.
Return(result, adjusted) ==
    [status |-> "ok", error |-> "", stage |-> "returned",
     result |-> result, adjusted |-> adjusted]

\* ZeroDivisionError / OverflowError out of the formula itself
ArithmeticFault == "ArithmeticError"

DropoutMessage == "Dropout rate too high."

z_alpha(alpha, two_sided) ==
    IF two_sided THEN NormPpf(Scale - alpha \div 2) ELSE NormPpf(Scale - alpha)

z_beta(power) == NormPpf(power)

\* A plausible slip: int(x) truncates instead of rounding up.
ceil_int_truncating(x) == x \div Scale

\* int(math.ceil(x)) of a fixed-point x
ceil_int(x) == CeilQuot(x, Scale)

\* if dropout_rate >= 0.95
DropoutLimit == 950

DropoutTooHigh(dropout_rate) == dropout_rate >= DropoutLimit

\* A plausible slip: negative rates are used as they are.
ClampDropoutMissing(dropout_rate) == dropout_rate

\* if dropout_rate < 0: dropout_rate = 0
ClampDropout(dropout_rate) == IF dropout_rate < 0 THEN 0 ELSE dropout_rate

\* 1 - dropout_rate is a floating-point subtraction: at these rates it
\* comes out below its exact value (1 - 0.8 = 0.19999999999999996,
\* 1 - 0.9 = 0.09999999999999998), so that a quotient which is an integer
\* in exact arithmetic comes out just above that integer.
OneMinusRoundsBelow(dropout_rate) == dropout_rate \in {800, 900}

\* A plausible slip: the retained fraction multiplies instead of dividing.
CeilOverRetainedMultiplying(x, dropout_rate) ==
    CeilQuot(x * (Scale - dropout_rate), Scale * Scale)

\* math.ceil(x / (1 - dropout_rate)) of a fixed-point x
CeilOverRetained(x, dropout_rate) ==
    LET q == CeilQuot(x, Scale - dropout_rate) IN
    IF OneMinusRoundsBelow(dropout_rate) /\ x % (Scale - dropout_rate) = 0
    THEN q + 1
    ELSE q

\* adjust_for_dropout(n, dropout_rate): raised |-> TRUE stands for the
\* ValueError, n is the returned size otherwise.
adjust_for_dropout(n, dropout_rate) ==
    LET d == ClampDropout(dropout_rate) IN
    IF DropoutTooHigh(d)
    THEN [raised |-> TRUE, n |-> 0]
    ELSE [raised |-> FALSE, n |-> CeilOverRetained(n * Scale, d)]

\* A plausible slip: the endpoints 0 and 1 are accepted.
validate_proportion_fails_outside(p) == p < 0 \/ p > Scale

validate_proportion_fails(p) == p <= 0 \/ p >= Scale

validate_positive_fails(value) == value <= 0

\* ========================================================================
\* calculators/continuous
\* ========================================================================

\* A plausible slip: delta and sd change places.
OneSampleNRawInverted(Z, sd, delta) == FSq(FDiv(FMul(Z, delta), sd))

\* n_raw = ((Z_alpha + Z_beta) * sd / delta) ** 2
OneSampleNRaw(Z, sd, delta) == FSq(FDiv(FMul(Z, sd), delta))

calculate_one_sample_mean(alpha, power, sd, delta, two_sided, dropout_rate) ==
    IF validate_positive_fails(sd) THEN Raise("validation", "Standard deviation must be positive.")
    ELSE IF validate_positive_fails(delta) THEN Raise("validation", "Mean difference must be positive.")
    ELSE
    LET Z_alpha == z_alpha(alpha, two_sided)
        Z_beta == z_beta(power)
        n_raw == OneSampleNRaw(Z_alpha + Z_beta, sd, delta)
        n_ceiled == ceil_int(n_raw)
        n_final == adjust_for_dropout(n_ceiled, dropout_rate)
    IN  IF n_final.raised THEN Raise("dropout", DropoutMessage)
        ELSE Return([n_required |-> n_final.n,
                     n_before_dropout |-> n_ceiled,
                     formula |-> "n = ((Z_alpha + Z_beta) * sd / delta)^2",
                     assumptions |-> <<"Outcome approximately normally distributed",
                                       "Known or estimated SD from literature or pilot",
                                       "Two-sided or one-sided test specified">>],
                    <<n_ceiled * Scale>>)

\* A plausible slip: the two-sample factor 2 is applied to paired data.
PairedNRawDoubled(Z, sd_diff, delta) == 2 * FSq(FDiv(FMul(Z, sd_diff), delta))

\* n_raw = ((Z_alpha + Z_beta) * sd_diff / delta) ** 2
PairedNRaw(Z, sd_diff, delta) == FSq(FDiv(FMul(Z, sd_diff), delta))

calculate_paired_mean(alpha, power, sd_diff, delta, two_sided, dropout_rate) ==
    IF validate_positive_fails(sd_diff) THEN Raise("validation", "SD of differences must be positive.")
    ELSE IF validate_positive_fails(delta) THEN Raise("validation", "Mean difference must be positive.")
    ELSE
    LET Z_alpha == z_alpha(alpha, two_sided)
        Z_beta == z_beta(power)
        n_raw == PairedNRaw(Z_alpha + Z_beta, sd_diff, delta)
        n_ceiled == ceil_int(n_raw)
        n_final == adjust_for_dropout(n_ceiled, dropout_rate)
    IN  IF n_final.raised THEN Raise("dropout", DropoutMessage)
        ELSE Return([n_required |-> n_final.n,
                     n_before_dropout |-> n_ceiled,
                     formula |-> "n = ((Z_alpha + Z_beta) * sd_diff / delta)^2",
                     assumptions |-> <<"Paired or repeated measurements",
                                       "Differences approximately normally distributed",
                                       "SD is SD of differences (not raw SD)">>],
                    <<n_ceiled * Scale>>)

\* A plausible slip: the allocation ratio divides instead of multiplying.
GroupTwoRawDivided(r, n1_raw) == FDiv(n1_raw, r)

\* n2_raw = r * n1_raw
GroupTwoRaw(r, n1_raw) == FMul(r, n1_raw)

calculate_two_independent_means(alpha, power, sd, delta, allocation_ratio, two_sided, dropout_rate) ==
    IF validate_positive_fails(sd) THEN Raise("validation", "Standard deviation must be positive.")
    ELSE IF validate_positive_fails(delta) THEN Raise("validation", "Mean difference must be positive.")
    ELSE IF validate_positive_fails(allocation_ratio) THEN Raise("validation", "Allocation ratio must be positive.")
    ELSE
    LET Z_alpha == z_alpha(alpha, two_sided)
        Z_beta == z_beta(power)
        r == allocation_ratio
        n1_raw == FMul(Scale + FDiv(Scale, r), FSq(FDiv(FMul(Z_alpha + Z_beta, sd), delta)))
        n2_raw == GroupTwoRaw(r, n1_raw)
        n1 == ceil_int(n1_raw)
        n2 == ceil_int(n2_raw)
        n1_final == adjust_for_dropout(n1, dropout_rate)
        n2_final == adjust_for_dropout(n2, dropout_rate)
    IN  IF n1_final.raised \/ n2_final.raised THEN Raise("dropout", DropoutMessage)
        ELSE Return([n_group1 |-> n1_final.n,
                     n_group2 |-> n2_final.n,
                     n_total |-> n1_final.n + n2_final.n,
                     n_before_dropout_group1 |-> n1,
                     n_before_dropout_group2 |-> n2,
                     formula |-> "n1 = (1 + 1/r) * ((Z_alpha + Z_beta) * sd / delta)^2",
                     assumptions |-> <<"Independent groups",
                                       "Common SD (pooled estimate)",
                                       "Normal approximation",
                                       "Allocation ratio specified">>],
                    <<n1 * Scale, n2 * Scale>>)

\* FTestAnovaPower().solve_power(effect_size, nobs=None, alpha, power,
\* k_groups): the solved real-valued total, an output of the library.  The
\* model lets it be any of these positive values.
SolvePowerValues == {8500, 52310, 158000}

\* A plausible slip: integer division rounds the group size down.
PerGroupFloor(n_total_final, k_groups) == n_total_final \div k_groups

\* n_per_group = ceil_int(n_total_final / k_groups)
PerGroup(n_total_final, k_groups) == CeilQuot(n_total_final, k_groups)

calculate_anova_oneway(alpha, power, effect_size_f, k_groups, dropout_rate, n_total_raw) ==
    IF effect_size_f <= 0 THEN Raise("validation", "Effect size f must be positive.")
    ELSE IF k_groups < 2 THEN Raise("validation", "Number of groups must be at least 2.")
    ELSE
    LET n_total == ceil_int(n_total_raw)
        n_total_final == adjust_for_dropout(n_total, dropout_rate)
        n_per_group == PerGroup(n_total_final.n, k_groups)
    IN  IF n_total_final.raised THEN Raise("dropout", DropoutMessage)
        ELSE Return([n_total |-> n_per_group * k_groups,
                     n_per_group |-> n_per_group,
                     n_before_dropout |-> n_total,
                     formula |-> "Solved using FTestAnovaPower with Cohen's f",
                     assumptions |-> <<"One-way fixed effect ANOVA",
                                       "Balanced design assumed",
                                       "Effect size expressed as Cohen's f">>],
                    <<n_total * Scale>>)

\* ========================================================================
\* calculators/binary
\* ========================================================================

ProportionMessage == "Proportion must be between 0 and 1 (exclusive)."

Abs(x) == IF x < 0 THEN -x ELSE x

calculate_one_proportion(alpha, power, p0, p1, two_sided, dropout_rate) ==
    IF validate_proportion_fails(p0) THEN Raise("validation", ProportionMessage)
    ELSE IF validate_proportion_fails(p1) THEN Raise("validation", ProportionMessage)
    ELSE IF p1 = p0 THEN Raise("validation", "p1 must differ from p0.")
    ELSE
    LET Z_alpha == z_alpha(alpha, two_sided)
        Z_beta == z_beta(power)
        numerator == FSq(FMul(Z_alpha, FSqrt(FMul(p0, Scale - p0)))
                         + FMul(Z_beta, FSqrt(FMul(p1, Scale - p1))))
        denominator == FSq(p1 - p0)
        n_raw == FDiv(numerator, denominator)
        n_ceiled == ceil_int(n_raw)
        n_final == adjust_for_dropout(n_ceiled, dropout_rate)
    IN  IF n_final.raised THEN Raise("dropout", DropoutMessage)
        ELSE Return([n_required |-> n_final.n,
                     n_before_dropout |-> n_ceiled,
                     formula |-> "Normal approximation for one-sample proportion",
                     assumptions |-> <<"Large sample normal approximation",
                                       "Binomial distribution",
                                       "Two-sided or one-sided test specified">>],
                    <<n_ceiled * Scale>>)

calculate_two_proportions(alpha, power, p1, p2, allocation_ratio, two_sided, dropout_rate) ==
    IF validate_proportion_fails(p1) THEN Raise("validation", ProportionMessage)
    ELSE IF validate_proportion_fails(p2) THEN Raise("validation", ProportionMessage)
    ELSE IF validate_positive_fails(allocation_ratio) THEN Raise("validation", "Allocation ratio must be positive.")
    ELSE
    LET delta == Abs(p1 - p2) IN
    IF delta = 0 THEN Raise("validation", "Proportions must differ to compute sample size.")
    ELSE
    LET Z_alpha == z_alpha(alpha, two_sided)
        Z_beta == z_beta(power)
        r == allocation_ratio
        p_bar == FDiv(p1 + FMul(r, p2), Scale + r)
        var_null == FMul(FMul(p_bar, Scale - p_bar), Scale + FDiv(Scale, r))
        var_alt == FMul(p1, Scale - p1) + FDiv(FMul(p2, Scale - p2), r)
        n1_raw == FDiv(FSq(FMul(Z_alpha, FSqrt(var_null)) + FMul(Z_beta, FSqrt(var_alt))),
                       FSq(delta))
        n1 == ceil_int(n1_raw)
        n2 == ceil_int(r * n1)
        n1_adj == adjust_for_dropout(n1, dropout_rate)
        n2_adj == adjust_for_dropout(n2, dropout_rate)
    IN  IF n1_adj.raised \/ n2_adj.raised THEN Raise("dropout", DropoutMessage)
        ELSE Return([n_group1 |-> n1_adj.n,
                     n_group2 |-> n2_adj.n,
                     n_total |-> n1_adj.n + n2_adj.n,
                     n1_before_dropout |-> n1,
                     n2_before_dropout |-> n2,
                     formula |-> "Two-proportion Z-test (pooled variance approach)",
                     assumptions |-> <<"Independent groups",
                                       "Binary outcome",
                                       "Normal approximation valid",
                                       "Adequate expected cell counts">>],
                    <<n1 * Scale, n2 * Scale>>)

\* result["formula"] = ...; result["assumptions"].append(...)
Relabel(outcome, formula, assumption) ==
    IF outcome.status # "ok" THEN outcome
    ELSE [outcome EXCEPT !.result.formula = formula,
                         !.result.assumptions = Append(@, assumption)]

\* p1 = (odds_ratio * p0) / (1 - p0 + odds_ratio * p0)
P1FromOddsRatio(p0, odds_ratio) ==
    FDiv(FMul(odds_ratio, p0), Scale - p0 + FMul(odds_ratio, p0))

calculate_case_control_or(alpha, power, p0, odds_ratio, control_case_ratio, two_sided, dropout_rate) ==
    IF validate_proportion_fails(p0) THEN Raise("validation", ProportionMessage)
    ELSE IF validate_positive_fails(odds_ratio) THEN Raise("validation", "Odds ratio must be positive.")
    ELSE IF validate_positive_fails(control_case_ratio) THEN Raise("validation", "Control-case ratio must be positive.")
    ELSE
    LET p1 == P1FromOddsRatio(p0, odds_ratio) IN
    Relabel(calculate_two_proportions(alpha, power, p1, p0, control_case_ratio, two_sided, dropout_rate),
            "Derived p1 from OR and applied two-proportion normal approximation",
            "Unmatched case-control design")

\* A plausible slip: the ratio divides the baseline risk.
P1FromRiskRatioInverted(p0, risk_ratio) == FDiv(p0, risk_ratio)

\* p1 = p0 * risk_ratio
P1FromRiskRatio(p0, risk_ratio) == FMul(p0, risk_ratio)

RiskTooLargeMessage == "Risk ratio too large for given baseline risk."

\* A plausible slip: a derived risk of exactly 1 is let through.
RiskTooLargeExclusive(p1) == p1 > Scale

\* if p1 >= 1
RiskTooLarge(p1) == p1 >= Scale

calculate_cohort_rr(alpha, power, baseline_risk, risk_ratio, allocation_ratio, two_sided, dropout_rate) ==
    IF validate_proportion_fails(baseline_risk) THEN Raise("validation", ProportionMessage)
    ELSE IF validate_positive_fails(risk_ratio) THEN Raise("validation", "Risk ratio must be positive.")
    ELSE IF validate_positive_fails(allocation_ratio) THEN Raise("validation", "Allocation ratio must be positive.")
    ELSE
    LET p0 == baseline_risk
        p1 == P1FromRiskRatio(p0, risk_ratio)
    IN  IF RiskTooLarge(p1) THEN Raise("validation", RiskTooLargeMessage)
        ELSE Relabel(calculate_two_proportions(alpha, power, p1, p0, allocation_ratio, two_sided, dropout_rate),
                     "Derived p1 = RR x p0 and applied two-proportion normal approximation",
                     "Cohort or randomized controlled design")

\* ========================================================================
\* calculators/association, calculators/survival
\* ========================================================================

calculate_correlation(alpha, power, r, two_sided, dropout_rate) ==
    IF r <= -990 \/ r >= 990 THEN Raise("validation", "Correlation must be between -0.99 and 0.99.")
    ELSE
    LET Z_alpha == z_alpha(alpha, two_sided)
        Z_beta == z_beta(power)
        z == Ln(FDiv(Scale + r, Scale - r)) \div 2
    IN  IF FSq(z) = 0 THEN Raise("formula", ArithmeticFault)
        ELSE
        LET n_raw == FDiv(FSq(Z_alpha + Z_beta), FSq(z)) + 3 * Scale
            n_ceiled == ceil_int(n_raw)
            n_final == adjust_for_dropout(n_ceiled, dropout_rate)
        IN  IF n_final.raised THEN Raise("dropout", DropoutMessage)
            ELSE Return([n_required |-> n_final.n,
                         n_before_dropout |-> n_ceiled,
                         formula |-> "Fisher z-transformation method",
                         assumptions |-> <<"Bivariate normal distribution",
                                           "Testing H0: rho = 0",
                                           "Large-sample approximation">>],
                        <<n_ceiled * Scale>>)

calculate_linear_regression(alpha, power, f2, n_predictors, two_sided, dropout_rate) ==
    IF validate_positive_fails(f2) THEN Raise("validation", "Cohen's f2 must be positive.")
    ELSE IF n_predictors < 1 THEN Raise("validation", "Number of predictors must be at least 1.")
    ELSE
    LET Z_alpha == z_alpha(alpha, two_sided)
        Z_beta == z_beta(power)
        n_raw == FDiv(FSq(Z_alpha + Z_beta), f2) + (n_predictors + 1) * Scale
        n_ceiled == ceil_int(n_raw)
        n_final == adjust_for_dropout(n_ceiled, dropout_rate)
    IN  IF n_final.raised THEN Raise("dropout", DropoutMessage)
        ELSE Return([n_required |-> n_final.n,
                     n_before_dropout |-> n_ceiled,
                     formula |-> "n = ((Z_alpha + Z_beta)^2 / f2) + predictors + 1",
                     assumptions |-> <<"Multiple linear regression",
                                       "Effect size expressed as Cohen's f2",
                                       "Approximate planning formula">>],
                    <<n_ceiled * Scale>>)

\* required_events / event_rate is a floating-point division: for these
\* operands the exact quotient is an integer and the float quotient comes
\* out just above it (21 / 0.7 = 30.000000000000004).
EventQuotientRoundsAbove(required_events, event_rate) ==
    event_rate = 700 /\ required_events \in {21, 42, 84, 161, 168, 175}

\* n_raw = required_events / event_rate
EventsOverRate(required_events, event_rate) ==
    FDiv(required_events * Scale, event_rate)
        + (IF EventQuotientRoundsAbove(required_events, event_rate) THEN 1 ELSE 0)

calculate_logistic_regression(event_rate, n_predictors, epv, dropout_rate) ==
    IF validate_proportion_fails(event_rate) THEN Raise("validation", ProportionMessage)
    ELSE IF validate_positive_fails(n_predictors) THEN Raise("validation", "Number of predictors must be positive.")
    ELSE IF validate_positive_fails(epv) THEN Raise("validation", "EPV must be positive.")
    ELSE
    LET required_events == epv * n_predictors
        n_raw == EventsOverRate(required_events, event_rate)
        n_ceiled == ceil_int(n_raw)
        n_final == adjust_for_dropout(n_ceiled, dropout_rate)
    IN  IF n_final.raised THEN Raise("dropout", DropoutMessage)
        ELSE Return([n_required |-> n_final.n,
                     required_events |-> required_events,
                     n_before_dropout |-> n_ceiled,
                     formula |-> "N = (EPV x predictors) / event_rate",
                     assumptions |-> <<"Logistic regression planning rule",
                                       "EPV ensures model stability",
                                       "Not a hypothesis-testing power calculation">>],
                    <<n_ceiled * Scale>>)

\* N_final up to 3000 at which 1 / 2.3 times N_final exceeds the integer
FirstShareAbove ==
    {
         23, 46, 69, 92, 115, 138, 184, 207, 230, 253, 276, 345, 368, 391,
         414, 437, 460, 483, 506, 529, 552, 575, 667, 690, 713, 736, 759,
         782, 805, 828, 851, 874, 897, 920, 943, 966, 989, 1012, 1035,
         1058, 1081, 1104, 1127, 1150, 1173, 1311, 1334, 1357, 1380, 1403,
         1426, 1449, 1472, 1495, 1518, 1541, 1564, 1587, 1610, 1633, 1656,
         1679, 1702, 1725, 1748, 1771, 1794, 1817, 1840, 1863, 1886, 1909,
         1932, 1955, 1978, 2001, 2024, 2047, 2070, 2093, 2116, 2139, 2162,
         2185, 2208, 2231, 2254, 2277, 2300, 2323, 2346, 2622, 2645, 2668,
         2691, 2714, 2737, 2760, 2783, 2806, 2829, 2852, 2875, 2898, 2921,
         2944, 2967, 2990
    }

\* ... and those at which only 1.3 / 2.3 times N_final does
SecondShareOnlyAbove ==
    {
         161, 299, 322, 598, 621, 644, 1196, 1219, 1242, 1265, 1288, 2369,
         2392, 2415, 2438, 2461, 2484, 2507, 2530, 2553, 2576, 2599
    }

\* Whether the float product N_final * (part / whole) lands above the exact
\* integer share: 92 * (1 / 2.3) = 40.00000000000001.  Of the allocation
\* ratios drawn, only 1.3 does that.
ShareRoundsAbove(N_final, part, whole) ==
    /\ whole = 2300
    /\ \/ N_final \in FirstShareAbove
       \/ part = 1300 /\ N_final \in SecondShareOnlyAbove

\* ceil_int(N_final * p) for p = part / whole
LogrankGroup(N_final, part, whole) ==
    CeilQuot(N_final * part, whole) + (IF ShareRoundsAbove(N_final, part, whole) THEN 1 ELSE 0)

calculate_logrank(alpha, power, hazard_ratio, allocation_ratio, event_fraction, two_sided, dropout_rate) ==
    IF validate_positive_fails(hazard_ratio) THEN Raise("validation", "Hazard ratio must be positive.")
    ELSE IF validate_positive_fails(allocation_ratio) THEN Raise("validation", "Allocation ratio must be positive.")
    ELSE IF validate_positive_fails(event_fraction) THEN Raise("validation", "Event fraction must be positive.")
    ELSE IF event_fraction >= Scale THEN Raise("validation", "Event fraction must be less than 1.")
    ELSE
    LET Z_alpha == z_alpha(alpha, two_sided)
        Z_beta == z_beta(power)
        r == allocation_ratio
        p1 == FDiv(Scale, Scale + r)
        p2 == FDiv(r, Scale + r)
        divisor == FMul(FMul(FSq(Ln(hazard_ratio)), p1), p2)
    IN  IF divisor = 0 THEN Raise("formula", ArithmeticFault)
        ELSE
        LET D_raw == FDiv(FSq(Z_alpha + Z_beta), divisor)
            D == ceil_int(D_raw)
            N_raw == FDiv(D * Scale, event_fraction)
            N == ceil_int(N_raw)
            N_final == adjust_for_dropout(N, dropout_rate)
            n1 == LogrankGroup(N_final.n, Scale, Scale + r)
            n2 == LogrankGroup(N_final.n, r, Scale + r)
        IN  IF N_final.raised THEN Raise("dropout", DropoutMessage)
            ELSE Return([n_total |-> n1 + n2,
                         n_group1 |-> n1,
                         n_group2 |-> n2,
                         required_events |-> D,
                         n_before_dropout |-> N,
                         formula |-> "Freedman log-rank events-based formula",
                         assumptions |-> <<"Proportional hazards assumption",
                                           "Log-rank test",
                                           "Event fraction estimated accurately">>],
                        <<N * Scale>>)

\* ========================================================================
\* app/main.py: the study types still computed inline.  Sidebar inputs are
\* widget-bounded (alpha 0.001..0.2, power 0.5..0.99, dropout 0..0.9).
\* st.error + st.stop is an error outcome; the result of a branch is what
\* it displays.
\* ========================================================================

\* if two_sided: stats.norm.ppf(1 - alpha/2) else: stats.norm.ppf(1 - alpha)
MainZAlpha(alpha, two_sided) ==
    IF two_sided THEN NormPpf(Scale - alpha \div 2) ELSE NormPpf(Scale - alpha)

main_case_control(alpha, power, two_sided, dropout_rate, p0, OR, ratio) ==
    LET p1 == FDiv(FMul(OR, p0), Scale - p0 + FMul(OR, p0))
        Z_alpha == MainZAlpha(alpha, two_sided)
        Z_beta == NormPpf(power)
        ln_or == Ln(OR)
        numerator == FMul(FSq(Z_alpha + Z_beta),
                          FDiv(Scale, FMul(p0, Scale - p0))
                          + FDiv(Scale, FMul(FMul(ratio, p1), Scale - p1)))
    IN  IF FSq(ln_or) = 0 THEN Raise("formula", ArithmeticFault)
        ELSE
        LET n1 == FDiv(numerator, FSq(ln_or))
            n2 == FMul(ratio, n1)
            n1_adj == CeilOverRetained(n1, dropout_rate)
            n2_adj == CeilOverRetained(n2, dropout_rate)
        IN  Return([n_group1 |-> n1_adj, n_group2 |-> n2_adj, n_total |-> n1_adj + n2_adj],
                   <<n1, n2>>)

main_cohort(alpha, power, two_sided, dropout_rate, p0, RR, ratio) ==
    LET p1 == FMul(p0, RR) IN
    IF p1 >= Scale THEN Raise("validation", "RR too large for given baseline risk (p1 >= 1).")
    ELSE
    LET Z_alpha == MainZAlpha(alpha, two_sided)
        Z_beta == NormPpf(power)
        ln_rr == Ln(RR)
        numerator == FMul(FSq(Z_alpha + Z_beta),
                          FDiv(Scale - p0, p0) + FDiv(Scale - p1, FMul(ratio, p1)))
    IN  IF FSq(ln_rr) = 0 THEN Raise("formula", ArithmeticFault)
        ELSE
        LET n1 == FDiv(numerator, FSq(ln_rr))
            n2 == FMul(ratio, n1)
            n1_adj == CeilOverRetained(n1, dropout_rate)
            n2_adj == CeilOverRetained(n2, dropout_rate)
        IN  Return([n_group1 |-> n1_adj, n_group2 |-> n2_adj, n_total |-> n1_adj + n2_adj],
                   <<n1, n2>>)

main_correlation(alpha, power, two_sided, dropout_rate, r_target) ==
    IF Abs(r_target) = 0 THEN Raise("validation", "r cannot be 0 for sample size planning.")
    ELSE IF r_target <= -990 \/ r_target >= 990 THEN Raise("validation", "r must be between -0.99 and 0.99.")
    ELSE
    LET Z_alpha == MainZAlpha(alpha, two_sided)
        Z_beta == NormPpf(power)
        z == Ln(FDiv(Scale + r_target, Scale - r_target)) \div 2
        n_raw == FDiv(FSq(Z_alpha + Z_beta), FSq(z)) + 3 * Scale
        n == CeilQuot(n_raw, Scale)
        n_adj == CeilOverRetained(n * Scale, dropout_rate)
    IN  Return([n_required |-> n_adj, n_before_dropout |-> n], <<n * Scale>>)

main_linear_regression(alpha, power, two_sided, dropout_rate, f2, p) ==
    LET Z_alpha == MainZAlpha(alpha, two_sided)
        Z_beta == NormPpf(power)
        n_raw == FDiv(FSq(Z_alpha + Z_beta), f2) + (p + 1) * Scale
        n == CeilQuot(n_raw, Scale)
        n_adj == CeilOverRetained(n * Scale, dropout_rate)
    IN  Return([n_required |-> n_adj, n_before_dropout |-> n], <<n * Scale>>)

main_logistic_regression(alpha, power, two_sided, dropout_rate, p_event, OR) ==
    LET Z_alpha == MainZAlpha(alpha, two_sided)
        Z_beta == NormPpf(power)
        ln_or == Ln(OR)
        p_term == FMul(p_event, Scale - p_event)
    IN  IF Abs(ln_or) = 0 THEN Raise("validation", "OR cannot be 1 (no effect).")
        ELSE IF p_term <= 0 THEN Raise("validation", "p must be strictly between 0 and 1.")
        ELSE
        LET n_raw == FDiv(FSq(Z_alpha + Z_beta), FMul(p_term, FSq(ln_or)))
            n_before_dropout == CeilQuot(n_raw, Scale)
            n_adj == CeilOverRetained(n_before_dropout * Scale, dropout_rate)
        IN  Return([n_required |-> n_adj, n_before_dropout |-> n_before_dropout],
                   <<n_before_dropout * Scale>>)

main_survival(alpha, power, two_sided, dropout_rate, hr, alloc_ratio, event_rate) ==
    LET Z_alpha == MainZAlpha(alpha, two_sided)
        Z_beta == NormPpf(power)
        ln_hr == Ln(hr)
        p == FDiv(Scale, Scale + alloc_ratio)
        divisor == FMul(FMul(FSq(ln_hr), p), Scale - p)
    IN  IF divisor = 0 THEN Raise("formula", ArithmeticFault)
        ELSE
        LET D == FDiv(FSq(Z_alpha + Z_beta), divisor)
            N_total == FDiv(D, event_rate)
            N_total_adj == CeilOverRetained(N_total, dropout_rate)
            n1 == CeilQuot(N_total_adj * p, Scale)
            n2 == CeilQuot(N_total_adj * (Scale - p), Scale)
        IN  Return([n_total |-> N_total_adj, n_group1 |-> n1, n_group2 |-> n2,
                    required_events |-> CeilQuot(D, Scale)],
                   <<N_total>>)

\* ========================================================================
\* Calls.  Every call is constructed fresh from its arguments and its
\* result is discarded before the next one.
\* ========================================================================

\* DesignParameters: alpha, power, sidedness and dropout rate (the last
\* includes a negative rate and the rejected 0.95).
Designs ==
    [alpha : {50, 200}, power : {500, 800}, two_sided : BOOLEAN,
     dropout_rate : {-100, 0, 100, 800, 950}]

DropoutRates == {-100, 0, 10, 100, 250, 500, 800, 900, 949, 950, 990}

Done(c, o) ==
    /\ c_pc = "idle"
    /\ c_pc' = "done"
    /\ call' = c
    /\ out' = o
    /\ UNCHANGED <<svars, hvars>>

CallAdjustForDropout ==
    \E n \in 1..MaxN, dropout_rate \in DropoutRates :
        LET a == adjust_for_dropout(n, dropout_rate) IN
        Done([fn |-> "adjust_for_dropout", n |-> n, dropout_rate |-> dropout_rate],
             IF a.raised THEN Raise("dropout", DropoutMessage)
             ELSE Return([n |-> a.n], <<n * Scale>>))

CallOneSampleMean ==
    \E d \in Designs, sd \in {0, 1000, 15000}, delta \in {-1000, 0, 5000, 10000} :
        Done([fn |-> "calculate_one_sample_mean", design |-> d, sd |-> sd, delta |-> delta],
             calculate_one_sample_mean(d.alpha, d.power, sd, delta, d.two_sided, d.dropout_rate))

CallPairedMean ==
    \E d \in Designs, sd_diff \in {0, 1000, 15000}, delta \in {-1000, 0, 5000, 10000} :
        Done([fn |-> "calculate_paired_mean", design |-> d, sd_diff |-> sd_diff, delta |-> delta],
             calculate_paired_mean(d.alpha, d.power, sd_diff, delta, d.two_sided, d.dropout_rate))

CallTwoIndependentMeans ==
    \E d \in Designs, sd \in {0, 15000}, delta \in {0, 10000},
       allocation_ratio \in {0, 500, 1000, 2000} :
        Done([fn |-> "calculate_two_independent_means", design |-> d, sd |-> sd,
              delta |-> delta, allocation_ratio |-> allocation_ratio],
             calculate_two_independent_means(d.alpha, d.power, sd, delta, allocation_ratio,
                                             d.two_sided, d.dropout_rate))

CallAnovaOneway ==
    \E d \in Designs, effect_size_f \in {0, 250}, k_groups \in 1..3,
       n_total_raw \in SolvePowerValues :
        Done([fn |-> "calculate_anova_oneway", design |-> d, effect_size_f |-> effect_size_f,
              k_groups |-> k_groups, n_total_raw |-> n_total_raw],
             calculate_anova_oneway(d.alpha, d.power, effect_size_f, k_groups,
                                    d.dropout_rate, n_total_raw))

CallOneProportion ==
    \E d \in Designs, p0 \in {0, 200, 500}, p1 \in {300, 500, 1000} :
        Done([fn |-> "calculate_one_proportion", design |-> d, p0 |-> p0, p1 |-> p1],
             calculate_one_proportion(d.alpha, d.power, p0, p1, d.two_sided, d.dropout_rate))

CallTwoProportions ==
    \E d \in Designs, p1 \in {0, 200, 300, 500}, p2 \in {200, 300, 500, 1000},
       allocation_ratio \in {0, 500, 1000, 2000} :
        Done([fn |-> "calculate_two_proportions", design |-> d, p1 |-> p1, p2 |-> p2,
              allocation_ratio |-> allocation_ratio],
             calculate_two_proportions(d.alpha, d.power, p1, p2, allocation_ratio,
                                       d.two_sided, d.dropout_rate))

CallCaseControlOr ==
    \E d \in Designs, p0 \in {0, 200, 300}, odds_ratio \in {0, 1000, 1500, 2000},
       control_case_ratio \in {0, 1000, 2000} :
        Done([fn |-> "calculate_case_control_or", design |-> d, p0 |-> p0,
              odds_ratio |-> odds_ratio, control_case_ratio |-> control_case_ratio],
             calculate_case_control_or(d.alpha, d.power, p0, odds_ratio, control_case_ratio,
                                       d.two_sided, d.dropout_rate))

CallCohortRr ==
    \E d \in Designs, baseline_risk \in {0, 200, 500},
       risk_ratio \in {0, 500, 1000, 1500, 2000}, allocation_ratio \in {0, 1000, 2000} :
        Done([fn |-> "calculate_cohort_rr", design |-> d, baseline_risk |-> baseline_risk,
              risk_ratio |-> risk_ratio, allocation_ratio |-> allocation_ratio],
             calculate_cohort_rr(d.alpha, d.power, baseline_risk, risk_ratio, allocation_ratio,
                                 d.two_sided, d.dropout_rate))

CallCorrelation ==
    \E d \in Designs, r \in {-990, -300, 0, 300, 500, 990} :
        Done([fn |-> "calculate_correlation", design |-> d, r |-> r],
             calculate_correlation(d.alpha, d.power, r, d.two_sided, d.dropout_rate))

CallLinearRegression ==
    \E d \in Designs, f2 \in {0, 150, 350}, n_predictors \in {0, 1, 5} :
        Done([fn |-> "calculate_linear_regression", design |-> d, f2 |-> f2,
              n_predictors |-> n_predictors],
             calculate_linear_regression(d.alpha, d.power, f2, n_predictors,
                                         d.two_sided, d.dropout_rate))

CallLogisticRegression ==
    \E d \in Designs, event_rate \in {0, 200, 300, 700, 1000}, n_predictors \in {0, 5, 7},
       epv \in {0, 3, 10} :
        Done([fn |-> "calculate_logistic_regression", design |-> d, event_rate |-> event_rate,
              n_predictors |-> n_predictors, epv |-> epv],
             calculate_logistic_regression(event_rate, n_predictors, epv, d.dropout_rate))

CallLogrank ==
    \E d \in Designs, hazard_ratio \in {0, 500, 700, 1000, 1500},
       allocation_ratio \in {0, 1000, 1300, 2000}, event_fraction \in {0, 500, 800, 1000} :
        Done([fn |-> "calculate_logrank", design |-> d, hazard_ratio |-> hazard_ratio,
              allocation_ratio |-> allocation_ratio, event_fraction |-> event_fraction],
             calculate_logrank(d.alpha, d.power, hazard_ratio, allocation_ratio, event_fraction,
                               d.two_sided, d.dropout_rate))

\* The sidebar of app/main.py
SidebarDesigns ==
    [alpha : {50, 200}, power : {500, 800}, two_sided : BOOLEAN,
     dropout_rate : {0, 100, 900}]

MainCaseControl ==
    \E d \in SidebarDesigns, p0 \in {200, 300}, OR \in {500, 1000, 1500, 2000},
       ratio \in {500, 1000, 2000} :
        Done([fn |-> "main_case_control", design |-> d, p0 |-> p0, OR |-> OR, ratio |-> ratio],
             main_case_control(d.alpha, d.power, d.two_sided, d.dropout_rate, p0, OR, ratio))

MainCohort ==
    \E d \in SidebarDesigns, p0 \in {200, 500}, RR \in {500, 1000, 1500, 2000},
       ratio \in {500, 1000, 2000} :
        Done([fn |-> "main_cohort", design |-> d, p0 |-> p0, RR |-> RR, ratio |-> ratio],
             main_cohort(d.alpha, d.power, d.two_sided, d.dropout_rate, p0, RR, ratio))

MainCorrelation ==
    \E d \in SidebarDesigns, r_target \in {-300, 0, 300, 500} :
        Done([fn |-> "main_correlation", design |-> d, r_target |-> r_target],
             main_correlation(d.alpha, d.power, d.two_sided, d.dropout_rate, r_target))

MainLinearRegression ==
    \E d \in SidebarDesigns, f2 \in {150, 350}, p \in {1, 5} :
        Done([fn |-> "main_linear_regression", design |-> d, f2 |-> f2, p |-> p],
             main_linear_regression(d.alpha, d.power, d.two_sided, d.dropout_rate, f2, p))

MainLogisticRegression ==
    \E d \in SidebarDesigns, p_event \in {200, 500}, OR \in {500, 1000, 1500, 2000} :
        Done([fn |-> "main_logistic_regression", design |-> d, p_event |-> p_event, OR |-> OR],
             main_logistic_regression(d.alpha, d.power, d.two_sided, d.dropout_rate, p_event, OR))

MainSurvival ==
    \E d \in SidebarDesigns, hr \in {500, 700, 1000, 1500}, alloc_ratio \in {500, 1000, 2000},
       event_rate \in {500, 800} :
        Done([fn |-> "main_survival", design |-> d, hr |-> hr, alloc_ratio |-> alloc_ratio,
              event_rate |-> event_rate],
             main_survival(d.alpha, d.power, d.two_sided, d.dropout_rate, hr, alloc_ratio, event_rate))

\* The result goes back to the caller and the call's objects are dropped.
Discard ==
    /\ c_pc = "done"
    /\ c_pc' = "idle"
    /\ call' = NoCall
    /\ out' = NoOutcome
    /\ UNCHANGED <<svars, hvars>>

Init ==
    /\ s_alpha = 50
    /\ s_power = 80
    /\ s_f2 = 150
    /\ s_u = 1
    /\ s_tab = [v \in 1..MaxV |-> 50]
    /\ s_v = 0
    /\ s_pc = "start"
    /\ s_ret = 0
    /\ c_pc = "idle"
    /\ call = NoCall
    /\ out = NoOutcome
    /\ InitSession

Next ==
    \/ CallAdjustForDropout
    \/ CallOneSampleMean
    \/ CallPairedMean
    \/ CallTwoIndependentMeans
    \/ CallAnovaOneway
    \/ CallOneProportion
    \/ CallTwoProportions
    \/ CallCaseControlOr
    \/ CallCohortRr
    \/ CallCorrelation
    \/ CallLinearRegression
    \/ CallLogisticRegression
    \/ CallLogrank
    \/ MainCaseControl
    \/ MainCohort
    \/ MainCorrelation
    \/ MainLinearRegression
    \/ MainLogisticRegression
    \/ MainSurvival
    \/ Discard

Spec == Init /\ [][Next]_vars

\* ------------------------------------------------------------------------
\* Claims about the calculators
\* ------------------------------------------------------------------------

Calculators ==
    {"calculate_one_sample_mean", "calculate_paired_mean", "calculate_two_independent_means",
     "calculate_anova_oneway", "calculate_one_proportion", "calculate_two_proportions",
     "calculate_case_control_or", "calculate_cohort_rr", "calculate_correlation",
     "calculate_linear_regression", "calculate_logistic_regression", "calculate_logrank"}

SingleGroup ==
    {"calculate_one_sample_mean", "calculate_paired_mean", "calculate_one_proportion",
     "calculate_correlation", "calculate_linear_regression", "calculate_logistic_regression"}

TwoProportionsShaped ==
    {"calculate_two_proportions", "calculate_case_control_or", "calculate_cohort_rr"}

Returned(fns) == c_pc = "done" /\ call.fn \in fns /\ out.status = "ok"

\* The swapped call of C3: (p1, p2, r) -> (p2, p1, 1/r)
SwappedTwoProportions ==
    calculate_two_proportions(call.design.alpha, call.design.power, call.p2, call.p1,
                              FDiv(Scale, call.allocation_ratio),
                              call.design.two_sided, call.design.dropout_rate)

\* C3: calculate_two_proportions is symmetric under relabelling the groups:
\* the call with (p2, p1, 1/r) returns the two group sizes exchanged, after
\* and before dropout.
C3_SwapExchangesGroups ==
    Returned({"calculate_two_proportions"}) =>
        /\ SwappedTwoProportions.status = "ok"
        /\ SwappedTwoProportions.result.n_group1 = out.result.n_group2
        /\ SwappedTwoProportions.result.n_group2 = out.result.n_group1
        /\ SwappedTwoProportions.result.n1_before_dropout = out.result.n2_before_dropout
        /\ SwappedTwoProportions.result.n2_before_dropout = out.result.n1_before_dropout

\* C4: for every calculator and every accepted input, each after-dropout
\* size is at least its before-dropout counterpart (n_total against
\* n_before_dropout for ANOVA and log-rank).
C4_DropoutOnlyInflates ==
    /\ Returned(SingleGroup) => out.result.n_required >= out.result.n_before_dropout
    /\ Returned({"calculate_two_independent_means"}) =>
        /\ out.result.n_group1 >= out.result.n_before_dropout_group1
        /\ out.result.n_group2 >= out.result.n_before_dropout_group2
    /\ Returned(TwoProportionsShaped) =>
        /\ out.result.n_group1 >= out.result.n1_before_dropout
        /\ out.result.n_group2 >= out.result.n2_before_dropout
    /\ Returned({"calculate_anova_oneway", "calculate_logrank"}) =>
        out.result.n_total >= out.result.n_before_dropout

C4_Witness ==
    /\ Returned({"calculate_logrank"})
    /\ call.design.dropout_rate = 100
    /\ out.result.n_total > out.result.n_before_dropout

\* C5: for every positive integer n and every rate d with 0 <= d < 0.95,
\* adjust_for_dropout(n, d) >= n, and adjust_for_dropout(n, 0) = n.
C5_AdjustNeverShrinks ==
    (c_pc = "done" /\ call.fn = "adjust_for_dropout"
        /\ call.dropout_rate >= 0 /\ call.dropout_rate < DropoutLimit) =>
        /\ out.status = "ok"
        /\ out.result.n >= call.n
        /\ (call.dropout_rate = 0 => out.result.n = call.n)

C5_Witness ==
    /\ c_pc = "done" /\ call.fn = "adjust_for_dropout"
    /\ call.n = 18 /\ call.dropout_rate = 100
    /\ out.status = "ok" /\ out.result.n = 20

\* C6 (on the rates 0 <= d < 1 of a dropout proportion): adjust_for_dropout
\* fails if and only if d >= 0.95, and otherwise returns exactly
\* ceil(n / (1 - d)).
C6_ExactCeilingOrError ==
    (c_pc = "done" /\ call.fn = "adjust_for_dropout" /\ call.dropout_rate >= 0) =>
        /\ (out.status = "error") <=> (call.dropout_rate >= DropoutLimit)
        /\ out.status = "ok" =>
            out.result.n = CeilQuot(call.n * Scale, Scale - call.dropout_rate)

\* C7: in every calculation path that reports a sample size, the dropout
\* division is applied only to values that were already ceiled to an
\* integer, once per independent size.
C7_AdjustsOnlyCeiledValues ==
    (c_pc = "done" /\ out.status = "ok") =>
        /\ Len(out.adjusted) \in {1, 2}
        /\ \A i \in DOMAIN out.adjusted : out.adjusted[i] % Scale = 0

\* C8: every calculator validates all of its inputs, dropout_rate included,
\* before any formula arithmetic: a failing call fails in validation, before
\* a raw sample size is computed.
C8_FailsBeforeArithmetic ==
    (c_pc = "done" /\ call.fn \in Calculators /\ out.status = "error") =>
        out.stage = "validation"

InDesignDomain ==
    /\ call.design.alpha > 0 /\ call.design.alpha <= 200
    /\ call.design.power >= 500 /\ call.design.power <= 990
    /\ call.design.dropout_rate >= 0 /\ call.design.dropout_rate < DropoutLimit

PositiveInt(n) == n \in Nat /\ n >= 1

\* C9: for every calculator and every input inside the DesignParameters
\* domain with a valid effect specification, every sample size of the
\* result (before and after dropout, per group and total) is an integer
\* >= 1.
C9_SizesArePositiveIntegers ==
    /\ (Returned(SingleGroup) /\ InDesignDomain) =>
        /\ PositiveInt(out.result.n_required)
        /\ PositiveInt(out.result.n_before_dropout)
    /\ (Returned({"calculate_two_independent_means"}) /\ InDesignDomain) =>
        /\ PositiveInt(out.result.n_group1) /\ PositiveInt(out.result.n_group2)
        /\ PositiveInt(out.result.n_total)
        /\ PositiveInt(out.result.n_before_dropout_group1)
        /\ PositiveInt(out.result.n_before_dropout_group2)
    /\ (Returned(TwoProportionsShaped) /\ InDesignDomain) =>
        /\ PositiveInt(out.result.n_group1) /\ PositiveInt(out.result.n_group2)
        /\ PositiveInt(out.result.n_total)
        /\ PositiveInt(out.result.n1_before_dropout)
        /\ PositiveInt(out.result.n2_before_dropout)
    /\ (Returned({"calculate_anova_oneway"}) /\ InDesignDomain) =>
        /\ PositiveInt(out.result.n_total) /\ PositiveInt(out.result.n_per_group)
        /\ PositiveInt(out.result.n_before_dropout)
    /\ (Returned({"calculate_logrank"}) /\ InDesignDomain) =>
        /\ PositiveInt(out.result.n_total) /\ PositiveInt(out.result.n_group1)
        /\ PositiveInt(out.result.n_group2) /\ PositiveInt(out.result.n_before_dropout)

C9_Witness ==
    /\ Returned({"calculate_one_sample_mean"}) /\ InDesignDomain
    /\ call.sd = 1000 /\ call.delta = 10000
    /\ out.result.n_before_dropout = 1

\* The sample sizes of a two-proportions-shaped result
Sizes(result) ==
    <<result.n_group1, result.n_group2, result.n_total,
      result.n1_before_dropout, result.n2_before_dropout>>

\* The direct call of C10: two-proportions with p1 = p0 * RR, p2 = p0
DirectTwoProportions ==
    calculate_two_proportions(call.design.alpha, call.design.power,
                              FMul(call.baseline_risk, call.risk_ratio), call.baseline_risk,
                              call.allocation_ratio,
                              call.design.two_sided, call.design.dropout_rate)

CaseControlByCalculator ==
    calculate_case_control_or(call.design.alpha, call.design.power, call.p0, call.OR,
                              call.ratio, call.design.two_sided, call.design.dropout_rate)

\* The two-proportions call calculate_case_control_or delegates to
CaseControlDelegate ==
    calculate_two_proportions(call.design.alpha, call.design.power,
                              P1FromOddsRatio(call.p0, call.odds_ratio), call.p0,
                              call.control_case_ratio,
                              call.design.two_sided, call.design.dropout_rate)

GroupSizes(result) == <<result.n_group1, result.n_group2>>

\* C11: every path that computes a case-control sample size (the calculator
\* and the app's Case-Control branch) obtains the group sizes from the
\* two-proportions calculator called with (p1 derived from OR, p2 = p0,
\* allocation ratio = control-to-case ratio); no independent formula is used.
C11_CaseControlUsesTwoProportions ==
    /\ Returned({"calculate_case_control_or"}) =>
        /\ CaseControlDelegate.status = "ok"
        /\ GroupSizes(out.result) = GroupSizes(CaseControlDelegate.result)
    /\ Returned({"main_case_control"}) =>
        /\ CaseControlByCalculator.status = "ok"
        /\ GroupSizes(out.result) = GroupSizes(CaseControlByCalculator.result)

\* C12: calculate_cohort_rr fails with its own error, without calling the
\* two-proportions calculator and without a result, whenever p1 = p0 * RR
\* is >= 1; for valid p0 and RR > 0 with p0 * RR < 1 the derived p1 lies
\* strictly in (0, 1) and is accepted.
C12_CohortRejectsRiskAtLeastOne ==
    (/\ c_pc = "done" /\ call.fn = "calculate_cohort_rr"
     /\ ~validate_proportion_fails(call.baseline_risk)
     /\ call.risk_ratio > 0 /\ call.allocation_ratio > 0) =>
        LET p1 == FMul(call.baseline_risk, call.risk_ratio) IN
        /\ p1 >= Scale =>
            /\ out.status = "error"
            /\ out.error = RiskTooLargeMessage
            /\ out.stage = "validation"
            /\ out.result = <<>>
        /\ p1 < Scale =>
            /\ p1 > 0
            /\ out.error # RiskTooLargeMessage
            /\ out.error # ProportionMessage

C12_Witness ==
    /\ c_pc = "done" /\ call.fn = "calculate_cohort_rr"
    /\ call.baseline_risk = 500 /\ call.risk_ratio = 2000 /\ call.allocation_ratio = 1000
    /\ out.status = "error" /\ out.error = RiskTooLargeMessage

\* ========================================================================
\* Conversions between effect measures, in exact rational arithmetic: a
\* rational is a record [num, den] with den > 0.
\* ========================================================================

Rat(n, m) == [num |-> n, den |-> m]

RatOne == Rat(1, 1)

RatZero == Rat(0, 1)

RatAdd(a, b) == Rat(a.num * b.den + b.num * a.den, a.den * b.den)

RatSub(a, b) == Rat(a.num * b.den - b.num * a.den, a.den * b.den)

RatMul(a, b) == Rat(a.num * b.num, a.den * b.den)

\* a / b for b # 0, keeping the denominator positive
RatDiv(a, b) ==
    IF b.num > 0 THEN Rat(a.num * b.den, a.den * b.num)
    ELSE Rat(-(a.num * b.den), -(a.den * b.num))

RatEq(a, b) == a.num * b.den = b.num * a.den

RatLt(a, b) == a.num * b.den < b.num * a.den

RatLe(a, b) == a.num * b.den <= b.num * a.den

\* max(0.0, min(1.0, x))
clamp01(x) == IF RatLt(x, RatZero) THEN RatZero ELSE IF RatLt(RatOne, x) THEN RatOne ELSE x

\* A plausible slip: the "- p0" of the denominator is forgotten.
OddsDenominatorWithoutComplement(p0, odds_ratio) == RatAdd(RatOne, RatMul(odds_ratio, p0))

\* 1 - p0 + odds_ratio * p0
OddsDenominator(p0, odds_ratio) == RatAdd(RatSub(RatOne, p0), RatMul(odds_ratio, p0))

\* case_control_or.py: p1 = (odds_ratio * p0) / (1 - p0 + odds_ratio * p0)
p1_from_or(p0, odds_ratio) == RatDiv(RatMul(odds_ratio, p0), OddsDenominator(p0, odds_ratio))

\* two_proportions_page.py: _p2_from_or(p1, odds_ratio); no_value stands for None
p2_from_or(p1, odds_ratio) ==
    LET p == clamp01(p1)
        denom == OddsDenominator(p, odds_ratio)
    IN  IF RatLe(denom, RatZero) THEN [no_value |-> TRUE, value |-> RatZero]
        ELSE [no_value |-> FALSE, value |-> clamp01(RatDiv(RatMul(odds_ratio, p), denom))]

\* main.py: or_from_risks = (p1/(1-p1)) / (p0/(1-p0))
or_from_risks(p0, p1) == RatDiv(RatDiv(p1, RatSub(RatOne, p1)), RatDiv(p0, RatSub(RatOne, p0)))

MaxDen == 5

\* Risks strictly between 0 and 1, and positive odds ratios
Risks == {x \in [num : 1..(MaxDen - 1), den : 2..MaxDen] : x.num < x.den}

OddsRatios == {Rat(n, m) : n \in 1..MaxDen, m \in 1..MaxDen}

\* The calculator derives the exposure prevalence among cases
DeriveP1FromOr ==
    \E p0 \in Risks, odds_ratio \in OddsRatios :
        Done([fn |-> "p1_from_or", p0 |-> p0, odds_ratio |-> odds_ratio],
             Return([p |-> p1_from_or(p0, odds_ratio)], <<>>))

\* The two-proportions page derives p2 from a baseline risk and an OR
DeriveP2FromOr ==
    \E p1 \in Risks, odds_ratio \in OddsRatios :
        LET p2 == p2_from_or(p1, odds_ratio) IN
        Done([fn |-> "_p2_from_or", p0 |-> p1, odds_ratio |-> odds_ratio],
             IF p2.no_value THEN Raise("validation", "None")
             ELSE Return([p |-> p2.value], <<>>))

\* The logistic-regression helper recomputes the OR from the baseline risk
\* and the risk that was just derived.
ComputeOrFromRisks ==
    /\ c_pc = "done"
    /\ call.fn \in {"p1_from_or", "_p2_from_or"}
    /\ out.status = "ok"
    /\ c_pc' = "done"
    /\ call' = [fn |-> "or_from_risks", p0 |-> call.p0, p1 |-> out.result.p,
                derived_with |-> call.odds_ratio]
    /\ out' = Return([odds_ratio |-> or_from_risks(call.p0, out.result.p)], <<>>)
    /\ UNCHANGED <<svars, hvars>>

\* validate_proportion(p): the ValueError or p itself
validate_proportion(p) ==
    IF validate_proportion_fails(p) THEN Raise("validation", ProportionMessage)
    ELSE Return([value |-> p], <<>>)

\* f"{name} must be positive."
PositiveMessage(name) == <<name, " must be positive.">>

\* validate_positive(value, name)
validate_positive(value, name) ==
    IF validate_positive_fails(value) THEN Raise("validation", PositiveMessage(name))
    ELSE Return([value |-> value], <<>>)

\* Arguments around and on the endpoints of the two domains
ValidatorArguments == {-500, -1, 0, 1, 500, 999, 1000, 1001, 1500}

CallValidateProportion ==
    \E p \in ValidatorArguments :
        Done([fn |-> "validate_proportion", p |-> p], validate_proportion(p))

CallValidatePositive ==
    \E value \in ValidatorArguments, name \in {"Value", "Allocation ratio"} :
        Done([fn |-> "validate_positive", value |-> value, name |-> name],
             validate_positive(value, name))

\* None, as a helper returns it (or the page's st.error) for "no estimate"
NoEstimate == Raise("validation", "None")

\* two_proportions_page.py: _se_from_ci_prop(p_hat, ci_low, ci_high, alpha)
se_from_ci_prop(p_hat, ci_low, ci_high, alpha) ==
    LET z == NormPpf(Scale - alpha \div 2)
        width == ci_high - ci_low
    IN  IF z <= 0 \/ width <= 0 THEN NoEstimate
        ELSE Return([se |-> FDiv(width, 2 * z)], <<>>)

\* cohort_rr_page.py: _se_log_rr_from_ci(rr, ci_low, ci_high)
se_log_rr_from_ci(rr, ci_low, ci_high) ==
    IF rr <= 0 \/ ci_low <= 0 \/ ci_high <= 0 \/ ci_low >= ci_high THEN NoEstimate
    ELSE LET z == NormPpf(975) IN
         Return([se |-> FDiv(Ln(ci_high) - Ln(ci_low), 2 * z)], <<>>)

\* case_control_or_page.py: the "Estimate log(OR) SE" button
se_log_or_from_ci(ci_low, ci_high) ==
    IF ci_low <= 0 \/ ci_high <= 0 \/ ci_low >= ci_high THEN NoEstimate
    ELSE LET z == NormPpf(975) IN
         Return([se |-> FDiv(Ln(ci_high) - Ln(ci_low), 2 * z)], <<>>)

\* Bounds of a reported interval for a proportion (the inputs allow 0 to 1)
ProportionBounds == {0, 150, 260, 500, 1000}

\* Bounds of a reported interval for a ratio
RatioBounds == {0, 500, 1000, 2000, 3000}

EstimateSeProportion ==
    \E p_hat \in {200}, ci_low \in ProportionBounds \cup {-100}, ci_high \in ProportionBounds :
        Done([fn |-> "_se_from_ci_prop", p_hat |-> p_hat, ci_low |-> ci_low, ci_high |-> ci_high],
             se_from_ci_prop(p_hat, ci_low, ci_high, 50))

EstimateSeLogRr ==
    \E rr \in {1500}, ci_low \in RatioBounds, ci_high \in RatioBounds :
        Done([fn |-> "_se_log_rr_from_ci", rr |-> rr, ci_low |-> ci_low, ci_high |-> ci_high],
             se_log_rr_from_ci(rr, ci_low, ci_high))

EstimateSeLogOr ==
    \E ci_low \in RatioBounds, ci_high \in RatioBounds :
        Done([fn |-> "se_log_or", ci_low |-> ci_low, ci_high |-> ci_high],
             se_log_or_from_ci(ci_low, ci_high))

\* ------------------------------------------------------------------------
\* app/study_pages/anova_oneway_page.py: _allocate_by_weights
\* Weights are counted in tenths (the step of the weight inputs).
\* ------------------------------------------------------------------------

RECURSIVE SumOf(_)
SumOf(seq) == IF seq = <<>> THEN 0 ELSE Head(seq) + SumOf(Tail(seq))

\* The groups whose exact share total_n * w / wsum is a positive integer:
\* the float product may land just below it (54 * (1.5 / 2.7) = 29.999...)
MayRoundBelow(total_n, weights) ==
    {i \in 1..Len(weights) :
        /\ SumOf(weights) > 0
        /\ total_n * weights[i] > 0
        /\ (total_n * weights[i]) % SumOf(weights) = 0}

\* base = floor(raw): one less where the product landed below the integer
AllocationBase(total_n, weights, below) ==
    [i \in 1..Len(weights) |->
        (total_n * weights[i]) \div SumOf(weights) - (IF i \in below THEN 1 ELSE 0)]

\* raw - base in units of 1/wsum; just under 1 where the product landed below
AllocationFrac(total_n, weights, below) ==
    [i \in 1..Len(weights) |->
        IF i \in below THEN SumOf(weights) ELSE (total_n * weights[i]) % SumOf(weights)]

\* Position of group i after frac.sort(reverse=True) on (frac, i), from 0,
\* were the order by index alone
RankByIndex(frac, i) == Cardinality({j \in DOMAIN frac : j > i})

\* Position of group i after frac.sort(reverse=True) on (frac, i), from 0
RankInSortedFrac(frac, i) ==
    Cardinality({j \in DOMAIN frac : frac[j] > frac[i] \/ (frac[j] = frac[i] /\ j > i)})

allocate_by_weights(total_n, weights, below) ==
    LET k == Len(weights)
        wsum == SumOf(weights)
    IN  IF wsum <= 0 THEN [i \in 1..k |-> CeilQuot(total_n, k)]
        ELSE LET base == AllocationBase(total_n, weights, below)
                 remainder == total_n - SumOf(base)
                 frac == AllocationFrac(total_n, weights, below)
             IN  [i \in 1..k |->
                    base[i] + (IF RankInSortedFrac(frac, i) < remainder THEN 1 ELSE 0)]

\* Largest total allocated
MaxTotal == 12

\* Weights in tenths: 0.0, 0.1, 1.0, 2.0
WeightValues == {0, 1, 10, 20}

WeightLists == [1..2 -> WeightValues] \cup [1..3 -> WeightValues]

AllocateByWeights ==
    \E total_n \in 0..MaxTotal, weights \in WeightLists :
        \E below \in SUBSET MayRoundBelow(total_n, weights) :
            Done([fn |-> "_allocate_by_weights", total_n |-> total_n, weights |-> weights,
                  below |-> below],
                 Return([alloc |-> allocate_by_weights(total_n, weights, below)], <<>>))

NextConversions ==
    \/ AllocateByWeights
    \/ EstimateSeProportion
    \/ EstimateSeLogRr
    \/ EstimateSeLogOr
    \/ DeriveP1FromOr
    \/ DeriveP2FromOr
    \/ ComputeOrFromRisks
    \/ CallValidateProportion
    \/ CallValidatePositive
    \/ Discard

SpecConversions == Init /\ [][NextConversions]_vars

\* C13: odds-ratio round trip: for every p0 in (0,1) and OR > 0, the derived
\* p1 = OR*p0 / (1 - p0 + OR*p0) lies strictly in (0,1), and recomputing
\* (p1/(1-p1)) / (p0/(1-p0)) returns the original OR exactly.
C13_OddsRatioRoundTrip ==
    /\ (c_pc = "done" /\ call.fn \in {"p1_from_or", "_p2_from_or"}) =>
        /\ out.status = "ok"
        /\ RatLt(RatZero, out.result.p)
        /\ RatLt(out.result.p, RatOne)
    /\ (c_pc = "done" /\ call.fn = "or_from_risks") =>
        RatEq(out.result.odds_ratio, call.derived_with)

C13_Witness ==
    /\ c_pc = "done" /\ call.fn = "or_from_risks"
    /\ call.p0 = Rat(1, 5) /\ call.derived_with = Rat(3, 2)
    /\ RatEq(call.p1, Rat(3, 11))
    /\ RatEq(out.result.odds_ratio, Rat(3, 2))

\* ------------------------------------------------------------------------
\* Claims about single calculators
\* ------------------------------------------------------------------------

\* Effect sizes to compare a one-sample call against
ComparedDeltas == {2000, 5000, 7500, 10000, 20000}

\* The same one-sample call with another delta
OneSampleAt(delta) ==
    calculate_one_sample_mean(call.design.alpha, call.design.power, call.sd, delta,
                              call.design.two_sided, call.design.dropout_rate)

\* C14: for the one-sample mean calculator, with alpha, power, SD,
\* sidedness and dropout held fixed, the sample size is non-increasing in
\* delta: delta1 <= delta2 implies n(delta1) >= n(delta2), before and after
\* dropout.
C14_NonIncreasingInDelta ==
    Returned({"calculate_one_sample_mean"}) =>
        \A delta2 \in ComparedDeltas :
            delta2 >= call.delta =>
                /\ OneSampleAt(delta2).status = "ok"
                /\ OneSampleAt(delta2).result.n_before_dropout <= out.result.n_before_dropout
                /\ OneSampleAt(delta2).result.n_required <= out.result.n_required

C14_Witness ==
    /\ Returned({"calculate_one_sample_mean"})
    /\ call.sd = 15000 /\ call.delta = 5000 /\ call.design.dropout_rate = 100
    /\ OneSampleAt(10000).result.n_before_dropout < out.result.n_before_dropout
    /\ OneSampleAt(10000).result.n_required < out.result.n_required

\* C15: calculate_correlation rejects r = 0 and every r with |r| >= 0.99
\* with a validation error of its own (zero effect is an error outcome, not
\* an arithmetic fault out of the formula and not a result), and returns a
\* result for every other r, the dropout rate being acceptable.
C15_CorrelationRejectsZeroEffect ==
    (/\ c_pc = "done" /\ call.fn = "calculate_correlation"
     /\ call.design.dropout_rate < DropoutLimit) =>
        IF call.r = 0 \/ call.r <= -990 \/ call.r >= 990
        THEN out.status = "error" /\ out.stage = "validation"
        ELSE out.status = "ok"

\* C16: calculate_logrank rejects hazard_ratio = 1, hazard_ratio <= 0 and
\* event_fraction >= 1 or <= 0 with an error of its own validation, before
\* the events formula is evaluated; for every other input (allocation ratio
\* and dropout rate being acceptable) it returns a result.
C16_LogrankRejectsNoEffect ==
    (/\ c_pc = "done" /\ call.fn = "calculate_logrank"
     /\ call.allocation_ratio > 0
     /\ call.design.dropout_rate < DropoutLimit) =>
        IF \/ call.hazard_ratio = Scale \/ call.hazard_ratio <= 0
           \/ call.event_fraction >= Scale \/ call.event_fraction <= 0
        THEN out.status = "error" /\ out.stage = "validation"
        ELSE out.status = "ok"

\* C17 (on event rates strictly between 0 and 1, the dropout rate being
\* acceptable): calculate_logistic_regression fails exactly when predictors
\* or EPV is not positive; otherwise it returns required_events = EPV *
\* predictors and n_before_dropout = ceil(required_events / event_rate), so
\* that n_before_dropout * event_rate >= required_events.
C17_LogisticEventsPerVariable ==
    (/\ c_pc = "done" /\ call.fn = "calculate_logistic_regression"
     /\ call.event_rate > 0 /\ call.event_rate < Scale
     /\ call.design.dropout_rate < DropoutLimit) =>
        /\ (out.status = "error") <=> (call.n_predictors <= 0 \/ call.epv <= 0)
        /\ out.status = "ok" =>
            /\ out.result.required_events = call.epv * call.n_predictors
            /\ out.result.n_before_dropout
                   = CeilQuot(out.result.required_events * Scale, call.event_rate)
            /\ out.result.n_before_dropout * call.event_rate
                   >= out.result.required_events * Scale

\* The dropout-adjusted total an ANOVA result was balanced from
AnovaSolvedTotal == adjust_for_dropout(out.result.n_before_dropout, call.design.dropout_rate).n

\* C18: for one-way ANOVA with k >= 2 groups the result is balanced:
\* n_per_group = ceil(N / k) for the dropout-adjusted total N, and
\* n_total = n_per_group * k, so that k divides n_total and
\* N <= n_total < N + k.
C18_AnovaBalanced ==
    Returned({"calculate_anova_oneway"}) =>
        /\ call.k_groups >= 2
        /\ out.result.n_per_group = CeilQuot(AnovaSolvedTotal, call.k_groups)
        /\ out.result.n_total = out.result.n_per_group * call.k_groups
        /\ out.result.n_total % call.k_groups = 0
        /\ AnovaSolvedTotal <= out.result.n_total
        /\ out.result.n_total < AnovaSolvedTotal + call.k_groups

C18_Witness ==
    /\ Returned({"calculate_anova_oneway"})
    /\ call.k_groups = 3 /\ call.design.dropout_rate = 100
    /\ out.result.n_before_dropout = 53
    /\ AnovaSolvedTotal = 59
    /\ out.result.n_per_group = 20 /\ out.result.n_total = 60

\* C19 as stated: for two independent means with allocation ratio r > 0 the
\* reported group-2 size is r times the reported group-1 size rounded up,
\* n_before_dropout_group2 = ceil(r * n_before_dropout_group1), hence
\* n2 >= r * n1 before dropout and n1 = n2 when r = 1; r <= 0 is rejected.
C19_GroupTwoFromReportedGroupOne ==
    (c_pc = "done" /\ call.fn = "calculate_two_independent_means"
        /\ call.sd > 0 /\ call.delta > 0
        /\ call.design.dropout_rate < DropoutLimit) =>
        /\ call.allocation_ratio <= 0 => out.status = "error" /\ out.stage = "validation"
        /\ call.allocation_ratio > 0 =>
            /\ out.status = "ok"
            /\ out.result.n_before_dropout_group2
                   = CeilQuot(call.allocation_ratio * out.result.n_before_dropout_group1, Scale)
            /\ out.result.n_before_dropout_group2 * Scale
                   >= call.allocation_ratio * out.result.n_before_dropout_group1
            /\ call.allocation_ratio = Scale =>
                   out.result.n_before_dropout_group1 = out.result.n_before_dropout_group2

\* C19 as the code has it: the group-2 size is the ceiling of r times the
\* unrounded group-1 size, so that before dropout
\* r * (n1 - 1) <= n2 <= ceil(r * n1), and n1 = n2 when r = 1; r <= 0 is
\* rejected.
C19_GroupTwoFromRawGroupOne ==
    (c_pc = "done" /\ call.fn = "calculate_two_independent_means"
        /\ call.sd > 0 /\ call.delta > 0
        /\ call.design.dropout_rate < DropoutLimit) =>
        /\ call.allocation_ratio <= 0 => out.status = "error" /\ out.stage = "validation"
        /\ call.allocation_ratio > 0 =>
            /\ out.status = "ok"
            /\ out.result.n_before_dropout_group2
                   <= CeilQuot(call.allocation_ratio * out.result.n_before_dropout_group1, Scale)
            /\ out.result.n_before_dropout_group2 * Scale
                   >= call.allocation_ratio * (out.result.n_before_dropout_group1 - 1)
            /\ call.allocation_ratio = Scale =>
                   out.result.n_before_dropout_group1 = out.result.n_before_dropout_group2

C19_Witness ==
    /\ Returned({"calculate_two_independent_means"})
    /\ call.allocation_ratio = 2000
    /\ out.result.n_before_dropout_group2 < 2 * out.result.n_before_dropout_group1

\* The one-sample calculator on the inputs of a paired call
OneSampleOnPairedInputs ==
    calculate_one_sample_mean(call.design.alpha, call.design.power, call.sd_diff, call.delta,
                              call.design.two_sided, call.design.dropout_rate)

\* C20: calculate_paired_mean and calculate_one_sample_mean compute the
\* same function: for identical (alpha, power, SD, delta, sidedness,
\* dropout) both return n_before_dropout = ceil(((Z_alpha + Z_beta) * SD /
\* delta)^2) and n_required = adjust_for_dropout(n_before_dropout), and both
\* reject SD <= 0 or delta <= 0.
C20_PairedEqualsOneSample ==
    (c_pc = "done" /\ call.fn = "calculate_paired_mean") =>
        /\ out.status = OneSampleOnPairedInputs.status
        /\ out.stage = OneSampleOnPairedInputs.stage
        /\ (call.sd_diff <= 0 \/ call.delta <= 0) =>
               out.status = "error" /\ out.stage = "validation"
        /\ out.status = "ok" =>
            /\ out.result.n_before_dropout = OneSampleOnPairedInputs.result.n_before_dropout
            /\ out.result.n_required = OneSampleOnPairedInputs.result.n_required
            /\ out.result.n_before_dropout
                   = CeilQuot(FSq(FDiv(FMul(z_alpha(call.design.alpha, call.design.two_sided)
                                              + z_beta(call.design.power), call.sd_diff),
                                       call.delta)), Scale)
            /\ out.result.n_required
                   = adjust_for_dropout(out.result.n_before_dropout, call.design.dropout_rate).n

C20_Witness ==
    /\ Returned({"calculate_paired_mean"})
    /\ call.design.alpha = 50 /\ call.design.two_sided /\ call.design.power = 800
    /\ call.design.dropout_rate = 0
    /\ call.sd_diff = 15000 /\ call.delta = 10000
    /\ out.result.n_required = 18
    /\ OneSampleOnPairedInputs.result.n_required = 18

\* ========================================================================
\* A session: several calls of the binary calculators in one process, with
\* the list objects they create and mutate.
\* ========================================================================

\* The list literal in the return statement of calculate_two_proportions
BaseAssumptions ==
    <<"Independent groups", "Binary outcome", "Normal approximation valid",
      "Adequate expected cell counts">>

\* A plausible slip: the assumptions are one module-level list that every
\* result refers to.
SharedAssumptions(h, n) ==
    [id |-> 1, heap |-> IF h[1] = <<>> THEN [h EXCEPT ![1] = BaseAssumptions] ELSE h]

\* Evaluating the list literal creates a new list object at each call.
FreshAssumptions(h, n) ==
    [id |-> n, heap |-> [h EXCEPT ![n] = BaseAssumptions]]

\* result["assumptions"].append(...) of the derived calculators
DesignEntry(fn) ==
    IF fn = "calculate_case_control_or" THEN "Unmatched case-control design"
    ELSE "Cohort or randomized controlled design"

\* A plausible slip: results are memoised under the function name alone.
ArgumentsOfFirstCall(c, hist) ==
    IF \E i \in DOMAIN hist : hist[i].call.fn = c.fn
    THEN hist[CHOOSE i \in DOMAIN hist :
                  /\ hist[i].call.fn = c.fn
                  /\ \A j \in DOMAIN hist : hist[j].call.fn = c.fn => i <= j].call
    ELSE c

\* A call is evaluated on its own arguments.
ArgumentsUsed(c, hist) == c

\* What the calculators compute from the arguments of a call
PureOutcome(c) ==
    CASE c.fn = "calculate_two_proportions" ->
            calculate_two_proportions(c.design.alpha, c.design.power, c.p1, c.p2,
                                      c.allocation_ratio, c.design.two_sided,
                                      c.design.dropout_rate)
      [] c.fn = "calculate_case_control_or" ->
            calculate_case_control_or(c.design.alpha, c.design.power, c.p0, c.odds_ratio,
                                      c.control_case_ratio, c.design.two_sided,
                                      c.design.dropout_rate)
      [] c.fn = "calculate_cohort_rr" ->
            calculate_cohort_rr(c.design.alpha, c.design.power, c.baseline_risk, c.risk_ratio,
                                c.allocation_ratio, c.design.two_sided,
                                c.design.dropout_rate)

SessionDesigns == [alpha : {50}, power : {800}, two_sided : {TRUE}, dropout_rate : {0, 950}]

\* The calls of a session, failing ones included
SessionCalls ==
    {[fn |-> "calculate_two_proportions", design |-> d, p1 |-> p1, p2 |-> 200,
      allocation_ratio |-> 1000] : d \in SessionDesigns, p1 \in {200, 300}}
    \cup {[fn |-> "calculate_case_control_or", design |-> d, p0 |-> 200, odds_ratio |-> o,
           control_case_ratio |-> 1000] : d \in SessionDesigns, o \in {0, 2000}}
    \cup {[fn |-> "calculate_cohort_rr", design |-> d, baseline_risk |-> b, risk_ratio |-> 2000,
           allocation_ratio |-> 1000] : d \in SessionDesigns, b \in {200, 500}}

\* One call: the dict and its list are created when calculate_two_proportions
\* reaches its return statement, and a derived calculator then appends its
\* entry to that list.
SessionCall ==
    \E c \in SessionCalls :
        LET pure == PureOutcome(ArgumentsUsed(c, history))
            a == FreshAssumptions(heap, next_id)
            filled == IF c.fn = "calculate_two_proportions" THEN a.heap
                      ELSE [a.heap EXCEPT ![a.id] = Append(@, DesignEntry(c.fn))]
            o == IF pure.status = "ok"
                 THEN [pure EXCEPT !.result.assumptions = filled[a.id]]
                 ELSE pure
        IN  /\ Len(history) < MaxCalls
            /\ heap' = IF pure.status = "ok" THEN filled ELSE heap
            /\ next_id' = IF pure.status = "ok" THEN next_id + 1 ELSE next_id
            /\ history' = Append(history, [call |-> c, out |-> o])
            /\ c_pc' = "done"
            /\ call' = c
            /\ out' = o
            /\ UNCHANGED <<svars, page>>

NextSession == SessionCall

SpecSession == Init /\ [][NextSession]_vars

\* C21: calculator calls are deterministic and isolated: in any sequence of
\* calls, failing ones included, each call's outcome depends only on that
\* call's own arguments; repeating a call gives the identical outcome and a
\* failed call never changes the outcome of a later call.
C21_OutcomeDependsOnArgumentsOnly ==
    \A i \in DOMAIN history :
        /\ history[i].out = PureOutcome(history[i].call)
        /\ \A j \in DOMAIN history :
               history[i].call = history[j].call => history[i].out = history[j].out

C21_Witness ==
    /\ Len(history) = 3
    /\ history[1].call.fn = "calculate_cohort_rr" /\ history[1].out.status = "ok"
    /\ history[2].out.status = "error"
    /\ history[3].call = history[1].call
    /\ history[3].out = history[1].out

\* ------------------------------------------------------------------------
\* Sidedness in the F-test designs
\* ------------------------------------------------------------------------

\* The calculator call that differs from the recorded one only in two_sided
LinearRegressionOtherSided ==
    calculate_linear_regression(call.design.alpha, call.design.power, call.f2,
                                call.n_predictors, ~call.design.two_sided,
                                call.design.dropout_rate)

\* The same for the Linear Regression branch of app/main.py
MainLinearRegressionOtherSided ==
    main_linear_regression(call.design.alpha, call.design.power, ~call.design.two_sided,
                           call.design.dropout_rate, call.f2, call.p)

\* C22: for multiple linear regression and one-way ANOVA the computed
\* sample size does not depend on the two_sided flag: two calculations that
\* differ only in two_sided return the same before- and after-dropout
\* sizes, in every code path that computes such a size.
C22_SidednessIrrelevantForFTests ==
    /\ Returned({"calculate_linear_regression"}) =>
        /\ LinearRegressionOtherSided.status = "ok"
        /\ LinearRegressionOtherSided.result.n_before_dropout = out.result.n_before_dropout
        /\ LinearRegressionOtherSided.result.n_required = out.result.n_required
    /\ Returned({"main_linear_regression"}) =>
        /\ MainLinearRegressionOtherSided.result.n_before_dropout = out.result.n_before_dropout
        /\ MainLinearRegressionOtherSided.result.n_required = out.result.n_required
    /\ Returned({"calculate_anova_oneway"}) =>
        calculate_anova_oneway(call.design.alpha, call.design.power, call.effect_size_f,
                               call.k_groups, call.design.dropout_rate,
                               call.n_total_raw).result = out.result

\* C23: the validators accept exactly their domain: validate_proportion(p)
\* returns p unchanged when 0 < p < 1 and fails for every p <= 0 or p >= 1;
\* validate_positive(x, name) returns x unchanged when x > 0 and fails for
\* every x <= 0.
C23_ValidatorsAcceptExactlyTheirDomain ==
    /\ (c_pc = "done" /\ call.fn = "validate_proportion") =>
        IF call.p > 0 /\ call.p < Scale
        THEN out.status = "ok" /\ out.result.value = call.p
        ELSE out.status = "error" /\ out.error = ProportionMessage
    /\ (c_pc = "done" /\ call.fn = "validate_positive") =>
        IF call.value > 0
        THEN out.status = "ok" /\ out.result.value = call.value
        ELSE out.status = "error" /\ out.error = <<call.name, " must be positive.">>

C23_Witness ==
    /\ c_pc = "done" /\ call.fn = "validate_proportion"
    /\ call.p = Scale
    /\ out.status = "error"

\* C25: every standard-error-from-confidence-interval helper, natural scale
\* and log scale, reports failure instead of a value whenever either bound
\* is non-positive or the bounds are inverted or equal, and returns a
\* strictly positive standard error otherwise.
C25_SeFromCiRejectsBadBounds ==
    (c_pc = "done" /\ call.fn \in {"_se_from_ci_prop", "_se_log_rr_from_ci", "se_log_or"}) =>
        IF call.ci_low <= 0 \/ call.ci_high <= 0 \/ call.ci_low >= call.ci_high
        THEN out.status = "error"
        ELSE out.status = "ok" /\ out.result.se > 0

\* The exact share of group i lies between these two integers
ShareFloor(total_n, weights, i) == (total_n * weights[i]) \div SumOf(weights)

ShareCeil(total_n, weights, i) == CeilQuot(total_n * weights[i], SumOf(weights))

AllocatedPositive ==
    /\ c_pc = "done"
    /\ call.fn = "_allocate_by_weights"
    /\ \A i \in DOMAIN call.weights : call.weights[i] > 0

LogrankFinal == adjust_for_dropout(out.result.n_before_dropout, call.design.dropout_rate).n

\* C27: calculate_logrank returns n_total = n_group1 + n_group2 with
\* n_group1 = ceil(N_final / (1 + r)) and n_group2 = ceil(N_final * r / (1 + r)),
\* so N_final <= n_total <= N_final + 1, and n_before_dropout times the
\* event fraction is at least required_events.
C27_LogrankSplitWithinOne ==
    Returned({"calculate_logrank"}) =>
        /\ out.result.n_total = out.result.n_group1 + out.result.n_group2
        /\ out.result.n_group1 = CeilQuot(LogrankFinal * Scale, Scale + call.allocation_ratio)
        /\ out.result.n_group2 = CeilQuot(LogrankFinal * call.allocation_ratio,
                                          Scale + call.allocation_ratio)
        /\ LogrankFinal <= out.result.n_total
        /\ out.result.n_total <= LogrankFinal + 1
        /\ out.result.n_before_dropout * call.event_fraction >= out.result.required_events * Scale

\* The list object created by the call at position i of the session: the
\* returning calls create one each, in order
ListOfCall(i) ==
    Cardinality({j \in 1..i : history[j].out.status = "ok"})

\* C28: result records are fresh per call: a two-proportions result always
\* holds exactly its 4 base assumptions, a derived-design result exactly
\* those 4 followed by its single design entry, whatever was called before
\* or is called after; entries never accumulate or leak between results.
C28_AssumptionsFreshPerCall ==
    \A i \in DOMAIN history :
        history[i].out.status = "ok" =>
            LET assumptions == history[i].out.result.assumptions IN
            /\ heap[ListOfCall(i)] = assumptions
            /\ IF history[i].call.fn = "calculate_two_proportions"
               THEN Len(assumptions) = 4 /\ assumptions = BaseAssumptions
               ELSE /\ Len(assumptions) = 5
                    /\ SubSeq(assumptions, 1, 4) = BaseAssumptions
                    /\ assumptions[5] = DesignEntry(history[i].call.fn)

C28_Witness ==
    /\ Len(history) = 3
    /\ history[1].call.fn = "calculate_cohort_rr"
    /\ history[2].call.fn = "calculate_case_control_or"
    /\ history[3].call.fn = "calculate_two_proportions"
    /\ \A i \in 1..3 : history[i].out.status = "ok"
    /\ Len(history[1].out.result.assumptions) = 5
    /\ Len(history[3].out.result.assumptions) = 4

\* ========================================================================
\* app/study_pages: the pages behind the study-type selectbox of app/main.py.
\* A script run renders the selected page only.  st.session_state keeps the
\* entries the code wrote itself; the state of a widget lasts while the
\* widget is rendered.  A value that may be absent is <<>> or <<v>>.
\* ========================================================================

Absent == <<>>

PageNames == {"One Proportion", "Two Proportions", "One-Way ANOVA"}

\* st.session_state["two_prop_suggest_p1"], ["two_prop_suggest_p2"]
SuggestedP1 == IF page.name = "none" THEN Absent ELSE page.suggest_p1

SuggestedP2 == IF page.name = "none" THEN Absent ELSE page.suggest_p2

\* value= of the final inputs of the Two Proportions page
FinalDefault(suggested, fallback) == IF suggested # Absent THEN suggested ELSE <<fallback>>

\* The app after a run: final_* are the values of the widgets keyed
\* two_prop_final_p1 / _p2, plain_* the values the same widgets would hold
\* had no helper button been pressed.
PageState(name, s1, s2, f1, f2, g1, g2) ==
    [name |-> name, suggest_p1 |-> s1, suggest_p2 |-> s2,
     final_p1 |-> f1, final_p2 |-> f2, plain_p1 |-> g1, plain_p2 |-> g2]

\* The user picks a study type: the page is rendered from scratch, the
\* suggestions stay in st.session_state.
SelectStudyType ==
    \E name \in PageNames :
        /\ c_pc = "idle"
        /\ page.name # name
        /\ page' = IF name = "Two Proportions"
                   THEN PageState(name, SuggestedP1, SuggestedP2,
                                  FinalDefault(SuggestedP1, 200), FinalDefault(SuggestedP2, 140),
                                  <<200>>, <<140>>)
                   ELSE PageState(name, SuggestedP1, SuggestedP2, Absent, Absent, Absent, Absent)
        /\ UNCHANGED <<svars, cvars, heap, next_id, history>>

\* _p_from_counts(events, total)
p_from_counts(events, total) ==
    IF total <= 0 THEN Absent
    ELSE LET x == (events * Scale) \div total IN
         <<IF x < 0 THEN 0 ELSE IF x > Scale THEN Scale ELSE x>>

\* "Compute p1 & p2" on the counts tab: the suggestions are stored, and the
\* same run renders the final inputs with the suggestions as value=.  Whether
\* a keyed widget that is already shown takes a changed value= depends on the
\* Streamlit release, which the repository does not pin.
ComputeFromCounts ==
    \E c1 \in {12, 25}, n1 \in {80, 100}, c2 \in {40, 48}, n2 \in {80, 100}, takes \in BOOLEAN :
        /\ c_pc = "idle"
        /\ page.name = "Two Proportions"
        /\ page' = PageState(page.name, p_from_counts(c1, n1), p_from_counts(c2, n2),
                             IF takes THEN p_from_counts(c1, n1) ELSE page.final_p1,
                             IF takes THEN p_from_counts(c2, n2) ELSE page.final_p2,
                             page.plain_p1, page.plain_p2)
        /\ UNCHANGED <<svars, cvars, heap, next_id, history>>

\* The user types into the final inputs
EnterFinalProportions ==
    \E p1 \in {200, 300}, p2 \in {140, 250} :
        /\ c_pc = "idle"
        /\ page.name = "Two Proportions"
        /\ page' = [page EXCEPT !.final_p1 = <<p1>>, !.final_p2 = <<p2>>,
                                !.plain_p1 = <<p1>>, !.plain_p2 = <<p2>>]
        /\ UNCHANGED <<svars, cvars, heap, next_id, history>>

\* The sidebar values a page is rendered with
PageDesigns == [alpha : {50}, power : {800}, two_sided : BOOLEAN, dropout_rate : {0, 100}]

\* A page's Calculate button has run
Calculated(c, o) ==
    /\ c_pc = "idle"
    /\ c_pc' = "done"
    /\ call' = c
    /\ out' = o
    /\ UNCHANGED <<svars, hvars>>

\* "Calculate Sample Size" of the Two Proportions page
two_proportions_page(alpha, power, dropout_rate, two_sided, p1, p2, allocation_ratio) ==
    IF dropout_rate >= DropoutLimit THEN Raise("page", "Dropout rate too high. Please use < 0.95.")
    ELSE calculate_two_proportions(alpha, power, p1, p2, allocation_ratio, two_sided, dropout_rate)

CalculateTwoProportions ==
    \E d \in PageDesigns, allocation_ratio \in {1000, 2000} :
        /\ page.name = "Two Proportions"
        /\ Calculated([fn |-> "two_proportions_page", design |-> d,
                       p1 |-> page.final_p1[1], p2 |-> page.final_p2[1],
                       plain_p1 |-> page.plain_p1[1], plain_p2 |-> page.plain_p2[1],
                       allocation_ratio |-> allocation_ratio],
                      two_proportions_page(d.alpha, d.power, d.dropout_rate, d.two_sided,
                                           page.final_p1[1], page.final_p2[1], allocation_ratio))

\* C24: running a derivation helper never changes what a later calculation
\* uses as input: the p1 and p2 passed to the two-proportions calculator are
\* the same as if no helper had run, unless the user enters other values.
C24_HelpersLeaveFinalInputsAlone ==
    (c_pc = "done" /\ call.fn = "two_proportions_page") =>
        /\ call.p1 = call.plain_p1
        /\ call.p2 = call.plain_p2

\* ------------------------------------------------------------------------
\* app/study_pages/one_proportion_page.py
\* ------------------------------------------------------------------------

\* templates/paragraph_templates.py: what the text states
paragraph_one_proportion(alpha, power, p0, p1, two_sided, dropout_rate, n_required) ==
    [sided |-> IF two_sided THEN "two-sided" ELSE "one-sided",
     alpha |-> alpha, power |-> power, null_proportion |-> p0,
     alternative_proportion |-> p1, n_required |-> n_required,
     dropout_rate |-> dropout_rate]

\* "Calculate Sample Size": p1 is the "Expected proportion" input, p0 the
\* "Reference / null proportion" input; both calls are positional.
one_proportion_page(alpha, power, dropout_rate, two_sided, p1, p0) ==
    IF dropout_rate >= DropoutLimit THEN Raise("page", DropoutMessage)
    ELSE LET result == calculate_one_proportion(alpha, power, p1, p0, two_sided, dropout_rate)
         IN  IF result.status # "ok" THEN result
             ELSE Return([n_required |-> result.result.n_required,
                          n_before_dropout |-> result.result.n_before_dropout,
                          paragraph |-> paragraph_one_proportion(
                                            alpha, power, p1, p0, two_sided, dropout_rate,
                                            result.result.n_required)],
                         result.adjusted)

CalculateOneProportion ==
    \E d \in PageDesigns, expected \in {300, 500}, null \in {200, 300} :
        /\ page.name = "One Proportion"
        /\ Calculated([fn |-> "one_proportion_page", design |-> d,
                       expected |-> expected, null |-> null],
                      one_proportion_page(d.alpha, d.power, d.dropout_rate, d.two_sided,
                                          expected, null))

\* ------------------------------------------------------------------------
\* app/study_pages/anova_oneway_page.py
\* ------------------------------------------------------------------------

\* def calculate_anova_oneway(alpha, power, effect_size_f, k_groups, dropout_rate=0.0)
AnovaParameters == {"alpha", "power", "effect_size_f", "k_groups", "dropout_rate"}

AnovaRequired == {"alpha", "power", "effect_size_f", "k_groups"}

\* The keywords of the page's call
AnovaPageKeywords == {"alpha", "power", "effect_size", "k_groups", "dropout_rate"}

\* Python binds a keyword call before the body runs: TypeError on a keyword
\* the function does not have or a required parameter left without value
KeywordsBind(parameters, required, keywords) ==
    keywords \subseteq parameters /\ required \subseteq keywords

\* "Calculate ANOVA Sample Size"
anova_oneway_page(alpha, power, dropout_rate, two_sided, k, f_plan, n_total_raw) ==
    IF dropout_rate >= DropoutLimit THEN Raise("page", "Dropout rate too high. Please use < 0.95.")
    ELSE IF ~KeywordsBind(AnovaParameters, AnovaRequired, AnovaPageKeywords)
    THEN Raise("call", "TypeError")
    ELSE LET result == calculate_anova_oneway(alpha, power, f_plan, k, dropout_rate, n_total_raw)
         IN  IF result.status # "ok" THEN result
             ELSE Return([total_n |-> result.result.n_total,
                          per_group_balanced |-> result.result.n_per_group],
                         result.adjusted)

CalculateAnova ==
    \E d \in PageDesigns, k \in 2..3, f_plan \in {250}, n_total_raw \in SolvePowerValues :
        /\ page.name = "One-Way ANOVA"
        /\ Calculated([fn |-> "anova_oneway_page", design |-> d, k |-> k, f_plan |-> f_plan,
                       n_total_raw |-> n_total_raw],
                      anova_oneway_page(d.alpha, d.power, d.dropout_rate, d.two_sided,
                                        k, f_plan, n_total_raw))

NextPages ==
    \/ SelectStudyType
    \/ ComputeFromCounts
    \/ EnterFinalProportions
    \/ CalculateTwoProportions
    \/ CalculateOneProportion
    \/ CalculateAnova
    \/ Discard

SpecPages == Init /\ [][NextPages]_vars

\* C29: the One Proportion page passes the null proportion as p0 and the
\* expected proportion as p1, to the calculator and to the methods
\* paragraph: the displayed size is calculate_one_proportion(p0 = null,
\* p1 = expected) and the paragraph names the same two values.
C29_OneProportionPageBindsNullToP0 ==
    (c_pc = "done" /\ call.fn = "one_proportion_page" /\ out.status = "ok") =>
        LET direct == calculate_one_proportion(call.design.alpha, call.design.power,
                                               call.null, call.expected,
                                               call.design.two_sided, call.design.dropout_rate)
        IN  /\ direct.status = "ok"
            /\ out.result.n_required = direct.result.n_required
            /\ out.result.paragraph.null_proportion = call.null
            /\ out.result.paragraph.alternative_proportion = call.expected

\* C30: on the ANOVA page, Calculate with valid inputs always invokes
\* calculate_anova_oneway with parameters it accepts and ends with a
\* displayed total N and per-group N; it never fails on a signature mismatch.
C30_AnovaPageCallsCalculator ==
    (c_pc = "done" /\ call.fn = "anova_oneway_page") =>
        /\ out.status = "ok"
        /\ out.result.total_n \in Nat \ {0}
        /\ out.result.per_group_balanced \in Nat \ {0}

====
